---------------------------- MODULE Spec2Model ----------------------------
(***************************************************************************)
(* A model of the RaftI2C device-type compiler:                            *)
(*   - the polling-config parser (DecodeGenerator.py),                     *)
(*   - the generation run over a device-type table                         *)
(*     (ProcessDevTypeJsonToC.py),                                         *)
(*   - the decode routine that DecodeGenerator.py emits, executed on a     *)
(*     buffer of poll records with a persistent decode state.              *)
(* Strings are sequences of one-character strings, so that split, strip,   *)
(* startswith and int() are modelled by what they do to the characters.    *)
(***************************************************************************)
EXTENDS Integers, Sequences, FiniteSets, TLC

VARIABLES
    \* ---- polling-config parser ----
    polling_config_record,  \* the string handed to the parser
    pc_entries,             \* ghost: the entries the string was built from
    pc_called,              \* whether the parser has been called on it
    pc_result,              \* what the parser returned or raised
    \* ---- generation run (process_dev_types) ----
    gen_options,            \* the generator's options
    devTypes,               \* dev_ident_json['devTypes'], in file order
    gen_pc,                 \* where the run is
    dev_record_index,       \* the record the run is at (0-based)
    header_created,         \* the output file exists (opened with 'w')
    header_file,            \* what has been written to it, in order
    exit_status,            \* -1 while running, then the process status
    diagnostic,             \* the last message printed before the exit
    \* ---- the emitted decode routine ----
    dec_options,            \* generator options the routine was emitted with
    poll_resp_meta,         \* devInfoJson.resp the routine was emitted from
    tsValues,               \* values the poll records' timestamp fields take
    bufLens,                \* buffer lengths the caller passes
    bufLen,                 \* argument: bytes in the input buffer
    maxRecCount,            \* argument: most records to decode
    structOutSize,          \* argument: bytes in the output buffer
    dec_pc,                 \* where the routine is
    numRecs,                \* local: records decoded so far
    pBuf,                   \* local: read position, as an offset from pBufIn
    pAttrStart,             \* local: start of the record's attributes
    pOut,                   \* local: output slot, as an index from pStruct
    attrIdx,                \* the attribute block the routine is at (1-based)
    decodeState,            \* RaftBusDeviceDecodeState, kept across calls
    bytesRead,              \* ghost: buffer offsets read by this call
    attrReads,              \* ghost: where each attribute of this record was read
    slotsWritten,           \* ghost: output slots written by this call
    retVal,                 \* what the last call returned (-1: none yet)
    rawHist,                \* ghost: raw timestamps read, over all calls
    usHist,                 \* ghost: corrected microseconds, per record
    outHist,                \* ghost: timestamp stored in the output record
    \* ---- the emitted decode routine, custom-pseudocode path ----
    record_time_increment_us, \* resp.us the routine was emitted with
    synthCounts,            \* values the custom program's record count takes
    pollRecIdx,             \* local: poll record the outer loop is at
    custTimestampUs,        \* local: timestampUs, corrected microseconds
    synthN,                 \* custom program: N, records in this poll record
    synthIdx,               \* custom program: i, records produced so far
    slotTime,               \* ghost: timestamp field of each output slot
    \* ---- the block emitted for one attribute, on one raw value ----
    attr_el,                \* the attribute record of the schema
    attr_block,             \* the statements emitted for it
    attr_raw,               \* the attribute's bytes in the buffer, unsigned
    attr_pc,                \* the statement of the block to run next
    attr_var,               \* the intermediate variable __<name>
    attr_out,               \* the output field pOut-><name>
    attr_hist,              \* ghost: <<__<name>, field>> after each statement
    \* ---- to_valid_c_var_name ----
    attr_name,              \* the name handed to it first
    name_results,           \* what each successive call returned
    \* ---- one attribute through the struct and decode generators ----
    type_el,                \* the attribute record
    type_pc,                \* where the generation is
    struct_lines,           \* field lines gen_struct_elements appended for it
    extract_blocks,         \* extraction blocks emitted for it
    type_printed,           \* diagnostics printed, in order
    \* ---- PseudocodeHandler: lexer and emitters ----
    pseudo_code,            \* the pseudocode text
    ps_target,              \* the emitter called: cpp, python, typescript
    substitutions,          \* the substitution rules, in the order supplied
    tokens,                 \* list(lexer(code))
    ps_pc,                  \* where the handler is
    tok_i,                  \* i: the token the loop is at (1-based)
    code_out,               \* code: the text emitted so far
    indent_level,           \* the emitter's indentation level
    emit_log,               \* ghost: what each pass of the loop added
    ps_result               \* what the emitter returned

parseVars == <<polling_config_record, pc_entries, pc_called, pc_result>>

genVars ==
    <<gen_options, devTypes, gen_pc, dev_record_index, header_created,
      header_file, exit_status, diagnostic>>

decVars ==
    <<dec_options, poll_resp_meta, tsValues, bufLens, bufLen, maxRecCount,
      structOutSize, dec_pc, numRecs, pBuf, pAttrStart, pOut, attrIdx,
      decodeState, bytesRead, attrReads, slotsWritten, retVal, rawHist, usHist, outHist>>

custVars ==
    <<record_time_increment_us, synthCounts, pollRecIdx, custTimestampUs,
      synthN, synthIdx, slotTime>>

attrVars ==
    <<attr_el, attr_block, attr_raw, attr_pc, attr_var, attr_out, attr_hist>>

nameVars == <<attr_name, name_results>>

typeVars == <<type_el, type_pc, struct_lines, extract_blocks, type_printed>>

pseudoVars ==
    <<pseudo_code, ps_target, substitutions, tokens, ps_pc, tok_i, code_out,
      indent_level, emit_log, ps_result>>

\* What the actions of one component leave alone.
notParseVars ==
    <<genVars, decVars, custVars, attrVars, nameVars, typeVars, pseudoVars>>

notGenVars ==
    <<parseVars, decVars, custVars, attrVars, nameVars, typeVars, pseudoVars>>

notDecodeVars ==
    <<parseVars, genVars, attrVars, nameVars, typeVars, pseudoVars>>

notAttrVars ==
    <<parseVars, genVars, decVars, custVars, nameVars, typeVars, pseudoVars>>

notNameVars ==
    <<parseVars, genVars, decVars, custVars, attrVars, typeVars, pseudoVars>>

notTypeVars ==
    <<parseVars, genVars, decVars, custVars, attrVars, nameVars, pseudoVars>>

notPseudoVars ==
    <<parseVars, genVars, decVars, custVars, attrVars, nameVars, typeVars>>

(***************************************************************************)
(* Bounds of the model.                                                    *)
(***************************************************************************)
MaxEntries == 2     \* entries per polling-config string
MaxBitLen == 9      \* longest bit pattern after "0b"
MaxByteCount == 11  \* largest N of an "r<N>" entry
MaxDevTypes == 2    \* device types in a table
MaxRecBytes == 3    \* largest declared record length "b"
MaxBufRecs == 3     \* whole records an input buffer holds at most
MaxRecCount == 2    \* largest maxRecCount argument
MaxHistory == 4     \* records decoded on one decode state

(***************************************************************************)
(* Character helpers (Python str methods used by the parser).              *)
(***************************************************************************)
Digits == <<"0", "1", "2", "3", "4", "5", "6", "7", "8", "9">>

IsDigit(c) == \E i \in 1..10 : Digits[i] = c

DigitVal(c) == (CHOOSE i \in 1..10 : Digits[i] = c) - 1

\* str.startswith
StartsWith(s, p) == Len(s) >= Len(p) /\ SubSeq(s, 1, Len(p)) = p

RECURSIVE LStrip(_)
LStrip(s) == IF s # <<>> /\ Head(s) = " " THEN LStrip(Tail(s)) ELSE s

RECURSIVE RStrip(_)
RStrip(s) ==
    IF s # <<>> /\ s[Len(s)] = " " THEN RStrip(SubSeq(s, 1, Len(s) - 1)) ELSE s

\* str.strip (of blanks)
Strip(s) == RStrip(LStrip(s))

\* str.split(sep) for a one-character separator: always at least one piece
RECURSIVE SplitOn(_, _)
SplitOn(s, sep) ==
    IF \E i \in 1..Len(s) : s[i] = sep
    THEN LET i == CHOOSE k \in 1..Len(s) :
                      s[k] = sep /\ \A j \in 1..(k - 1) : s[j] # sep
         IN  <<SubSeq(s, 1, i - 1)>> \o SplitOn(SubSeq(s, i + 1, Len(s)), sep)
    ELSE <<s>>

RECURSIVE DigitsValue(_)
DigitsValue(s) ==
    IF s = <<>> THEN 0
    ELSE 10 * DigitsValue(SubSeq(s, 1, Len(s) - 1)) + DigitVal(s[Len(s)])

\* Python int(str): blanks around are ignored, one optional sign, then at
\* least one decimal digit; anything else raises ValueError.
PyInt(s) ==
    LET t == Strip(s)
        signed == t # <<>> /\ Head(t) \in {"-", "+"}
        body == IF signed THEN Tail(t) ELSE t
    IN  IF body # <<>> /\ \A i \in 1..Len(body) : IsDigit(body[i])
        THEN [ok |-> TRUE,
              val |-> IF signed /\ Head(t) = "-" THEN 0 - DigitsValue(body)
                      ELSE DigitsValue(body)]
        ELSE [ok |-> FALSE, val |-> 0]

(***************************************************************************)
(* DecodeGenerator.to_valid_c_var_name                                     *)
(***************************************************************************)
Letters ==
    {
     "a", "b", "c", "d", "e", "f", "g", "h", "i", "j", "k", "l", "m", "n",
     "o", "p", "q", "r", "s", "t", "u", "v", "w", "x", "y", "z",
     "A", "B", "C", "D", "E", "F", "G", "H", "I", "J", "K", "L", "M", "N",
     "O", "P", "Q", "R", "S", "T", "U", "V", "W", "X", "Y", "Z" }

\* \w of the re module, on the characters of the model
IsWordChar(c) == c \in Letters \/ IsDigit(c) \/ c = "_"

RECURSIVE DropNonWord(_)
DropNonWord(s) ==
    IF s # <<>> /\ ~IsWordChar(Head(s)) THEN DropNonWord(Tail(s)) ELSE s

\* re.sub(r'\W+', '_', attr_name): each run of non-word characters becomes
\* one underscore
RECURSIVE SubNonWordRuns(_)
SubNonWordRuns(s) ==
    IF s = <<>> THEN <<>>
    ELSE IF IsWordChar(Head(s)) THEN <<Head(s)>> \o SubNonWordRuns(Tail(s))
    ELSE <<"_">> \o SubNonWordRuns(DropNonWord(Tail(s)))

\* a name starting with a digit or with an underscore
StartsWithDigitOrUnderscoreMutant(name) ==
    name # <<>> /\ (IsDigit(name[1]) \/ name[1] = "_")

\* attr_name and attr_name[0].isdigit()
StartsWithDigit(name) == name # <<>> /\ IsDigit(name[1])

to_valid_c_var_name(name) ==
    LET subbed == SubNonWordRuns(name)
    IN  IF StartsWithDigit(subbed) THEN <<"_">> \o subbed ELSE subbed

(***************************************************************************)
(* DecodeGenerator._get_polling_config_result_len_bytes                    *)
(***************************************************************************)
\* pc_read_def = pc_eq[1].strip() if len(pc_eq) > 1 else ""
ReadDef(pc) ==
    LET pc_eq == SplitOn(pc, "=")
    IN  IF Len(pc_eq) > 1 THEN Strip(pc_eq[2]) ELSE <<>>

\* pc_bit_len = len(pc_read_def) - 2
BitLenNoPrefixMutant(pc_read_def) == Len(pc_read_def)

BitLen(pc_read_def) == Len(pc_read_def) - 2

\* One iteration of the loop over pc_split: what the entry adds to pc_len,
\* or the ValueError it raises.
EntryLen(pc) ==
    LET pc_read_def == ReadDef(pc)
    IN  IF StartsWith(pc_read_def, <<"0", "b">>)
        THEN IF BitLen(pc_read_def) % 8 # 0
             THEN [raised |-> TRUE, add |-> 0, bad |-> pc_read_def]
             ELSE [raised |-> FALSE, add |-> BitLen(pc_read_def) \div 8,
                   bad |-> <<>>]
        ELSE IF StartsWith(pc_read_def, <<"r">>)
        THEN LET n == PyInt(Tail(pc_read_def))
             IN  IF n.ok
                 THEN [raised |-> FALSE, add |-> n.val, bad |-> <<>>]
                 ELSE [raised |-> TRUE, add |-> 0, bad |-> Tail(pc_read_def)]
        ELSE IF Len(pc_read_def) = 0
        THEN [raised |-> FALSE, add |-> 0, bad |-> <<>>]
        ELSE [raised |-> TRUE, add |-> 0, bad |-> pc_read_def]

RECURSIVE SumEntries(_, _, _)
SumEntries(pc_split, i, pc_len) ==
    IF i > Len(pc_split) THEN [raised |-> FALSE, len |-> pc_len, bad |-> <<>>]
    ELSE LET e == EntryLen(pc_split[i])
         IN  IF e.raised THEN [raised |-> TRUE, len |-> 0, bad |-> e.bad]
             ELSE SumEntries(pc_split, i + 1, pc_len + e.add)

\* The whole function: the returned length, or the raised ValueError with
\* the text its message carries.
PollingConfigResultLen(text) == SumEntries(SplitOn(text, "&"), 1, 0)

(***************************************************************************)
(* Polling-config strings the parser is run on.  Each entry is             *)
(* register "=" value; the ghost record keeps how the value was formed.    *)
(***************************************************************************)
Registers == <<<<"0", "x", "0", "8">>, <<"0", "x", "0", "9">>, <<"0", "x", "0", "a">>>>

RegisterAt(i) == Registers[((i - 1) % Len(Registers)) + 1]

RECURSIVE DecDigits(_)
DecDigits(n) ==
    IF n < 10 THEN <<Digits[n + 1]>>
    ELSE DecDigits(n \div 10) \o <<Digits[(n % 10) + 1]>>

BitPattern(c, n) == <<"0", "b">> \o [i \in 1..n |-> c]

\* "r<N>" as written plainly, with a leading zero, or with blanks around it
ByteCount(n, form) ==
    CASE form = "plain" -> <<"r">> \o DecDigits(n)
      [] form = "zero" -> <<"r", "0">> \o DecDigits(n)
      [] form = "blank" -> <<" ", "r">> \o DecDigits(n) \o <<" ">>

\* Values outside the mini-language: a signed count, a bare number, a
\* word, "r" without digits, a hex number, a count with a trailing letter.
OtherValues ==
    { <<"r", "-", "1">>, <<"1">>, <<"z", "1">>, <<"r">>, <<"0", "x", "1">>,
      <<"r", "1", "b">> }

EntryValues ==
    {[kind |-> "empty", val |-> <<>>, n |-> 0]}
    \cup {[kind |-> "bits", val |-> BitPattern(c, n), n |-> n] :
              c \in {"0", "1"}, n \in 0..MaxBitLen}
    \cup {[kind |-> "count", val |-> ByteCount(n, form), n |-> n] :
              n \in 0..MaxByteCount, form \in {"plain", "zero", "blank"}}
    \cup {[kind |-> "other", val |-> v, n |-> 0] : v \in OtherValues}

\* The text of one entry.
EntryText(reg, v) == reg \o <<"=">> \o v.val

JoinAmp(text, n, entry) == IF n = 0 THEN entry ELSE text \o <<"&">> \o entry

NoResult == [raised |-> FALSE, len |-> 0, bad |-> <<>>]

ParseInit ==
    /\ polling_config_record = <<>>
    /\ pc_entries = <<>>
    /\ pc_called = FALSE
    /\ pc_result = NoResult

\* The caller extends the polling-config string by one entry.
AddEntry ==
    /\ ~pc_called
    /\ Len(pc_entries) < MaxEntries
    /\ \E v \in EntryValues :
         /\ polling_config_record' =
                JoinAmp(polling_config_record, Len(pc_entries),
                        EntryText(RegisterAt(Len(pc_entries) + 1), v))
         /\ pc_entries' = Append(pc_entries, v)
    /\ UNCHANGED <<pc_called, pc_result>>
    /\ UNCHANGED notParseVars

\* poll_data_bytes calls the parser on the string.
CallParser ==
    /\ ~pc_called
    /\ pc_called' = TRUE
    /\ pc_result' = PollingConfigResultLen(polling_config_record)
    /\ UNCHANGED <<polling_config_record, pc_entries>>
    /\ UNCHANGED notParseVars

ParseNext == AddEntry \/ CallParser

(***************************************************************************)
(* Claims about the parser.                                                *)
(***************************************************************************)
\* The width an entry declares in the mini-language.
DeclaredWidth(e) ==
    CASE e.kind = "bits" -> e.n \div 8
      [] e.kind = "count" -> e.n
      [] OTHER -> 0

RECURSIVE SumWidths(_)
SumWidths(entries) ==
    IF entries = <<>> THEN 0
    ELSE DeclaredWidth(Head(entries)) + SumWidths(Tail(entries))

\* An entry of the mini-language: empty, "0b" + bits in whole bytes, "r" + N.
ValidEntry(e) ==
    \/ e.kind = "empty"
    \/ e.kind = "count"
    \/ e.kind = "bits" /\ e.n % 8 = 0

BadBitLen(e) == e.kind = "bits" /\ e.n % 8 # 0

\* C1: for every syntactically valid polling-config string the parser
\* returns the sum of the entries' declared widths (bits/8, N, 0 for an
\* empty value); a string holding a bit pattern whose length is not a
\* multiple of 8 raises an error and returns no length.
C1_LengthIsSumOfWidths ==
    pc_called =>
        /\ (\A i \in 1..Len(pc_entries) : ValidEntry(pc_entries[i]))
               => /\ ~pc_result.raised
                  /\ pc_result.len = SumWidths(pc_entries)
        /\ (\E i \in 1..Len(pc_entries) : BadBitLen(pc_entries[i]))
               => pc_result.raised

\* C1 witness: a two-entry string, one 8-bit pattern and one two-digit
\* byte count, has been parsed.
C1_Witness ==
    /\ pc_called
    /\ Len(pc_entries) = 2
    /\ pc_entries[1].kind = "bits" /\ pc_entries[1].n = 8
    /\ pc_entries[2].kind = "count" /\ pc_entries[2].n = 10
    /\ ~pc_result.raised /\ pc_result.len = 11

\* C2: every entry whose value is none of {empty, "0b" + bits, "r" +
\* decimal digits} aborts parsing: a returned length never includes such
\* an entry.
C2_OtherFormsAlwaysRejected ==
    (pc_called /\ ~pc_result.raised)
        => \A i \in 1..Len(pc_entries) : pc_entries[i].kind # "other"

(***************************************************************************)
(* Type tables of DecodeGenerator.__init__.                                *)
(***************************************************************************)
PyStructTags ==
    {"b", "B", ">h", "<h", ">H", "<H", ">i", "<i", ">I", "<I", ">l", "<l",
     ">L", "<L", ">q", "<q", ">Q", "<Q", ">f", "<f", ">d", "<d"}

\* pystruct_map[t][0]
PyStructCType(t) ==
    CASE t = "b" -> "int8_t"
      [] t = "B" -> "uint8_t"
      [] t \in {">h", "<h"} -> "int16_t"
      [] t \in {">H", "<H"} -> "uint16_t"
      [] t \in {">i", "<i", ">l", "<l"} -> "int32_t"
      [] t \in {">I", "<I", ">L", "<L"} -> "uint32_t"
      [] t \in {">q", "<q"} -> "int64_t"
      [] t \in {">Q", "<Q"} -> "uint64_t"
      [] t \in {">f", "<f"} -> "float"
      [] t \in {">d", "<d"} -> "double"

\* pystruct_map[t][1]
PyStructGetFn(t) ==
    CASE t = "b" -> "getUint8AndInc"
      [] t = "B" -> "getInt8AndInc"
      [] t = ">h" -> "getBEInt16AndInc"
      [] t = "<h" -> "getLEInt16AndInc"
      [] t = ">H" -> "getBEUint16AndInc"
      [] t = "<H" -> "getLEUint16AndInc"
      [] t \in {">i", ">l"} -> "getBEInt32AndInc"
      [] t \in {"<i", "<l"} -> "getLEInt32AndInc"
      [] t \in {">I", ">L"} -> "getBEUint32AndInc"
      [] t \in {"<I", "<L"} -> "getLEUint32AndInc"
      [] t = ">q" -> "getBEInt64AndInc"
      [] t = "<q" -> "getLEInt64AndInc"
      [] t = ">Q" -> "getBEUint64AndInc"
      [] t = "<Q" -> "getLEUint64AndInc"
      [] t = ">f" -> "getBEfloat32AndInc"
      [] t = "<f" -> "getLEfloat32AndInc"
      [] t = ">d" -> "getBEdouble64AndInc"
      [] t = "<d" -> "getLEdouble64AndInc"

\* sizeof() of the C types the generator names
SizeOf(c_type) ==
    CASE c_type \in {"int8_t", "uint8_t", "bool"} -> 1
      [] c_type \in {"int16_t", "uint16_t"} -> 2
      [] c_type \in {"int32_t", "uint32_t", "float"} -> 4
      [] c_type \in {"int64_t", "uint64_t", "double"} -> 8

\* get_c_eqv_type(el, False, False): "" for an unknown tag
BufElemType(el) == IF el.t \in PyStructTags THEN PyStructCType(el.t) ELSE ""

(***************************************************************************)
(* process_dev_types: the generation run.                                  *)
(***************************************************************************)
\* The documented end-to-end polling config, "0x08=0b0000000000000000&0x09=r1"
PollConfig3Bytes ==
    JoinAmp(EntryText(Registers[1], [val |-> BitPattern("0", 16)]), 1,
            EntryText(Registers[2], [val |-> ByteCount(1, "plain")]))

\* "0x08=r2", "0x08=0b0" (a bit pattern that is no whole byte), "0x08=z1"
PollConfigs ==
    { PollConfig3Bytes,
      EntryText(Registers[1], [val |-> ByteCount(2, "plain")]),
      EntryText(Registers[1], [val |-> BitPattern("0", 1)]),
      EntryText(Registers[1], [val |-> <<"z", "1">>]) }

\* Attribute schemas: a 2-byte big-endian unsigned field at offset 0 and a
\* 1-byte field at offset 2 (3 bytes); one 2-byte field (2 bytes).
\* at = -1 stands for an attribute without the "at" key.
\* m = -1 stands for an attribute without the "m" (AND mask) key.
GenSchemas ==
    { << [t |-> ">H", at |-> 0, m |-> -1], [t |-> "B", at |-> 2, m |-> -1] >>,
      << [t |-> ">H", at |-> -1, m |-> -1] >> }

DevTypeKeys == <<"devA", "devB", "devC", "devD">>

\* One table entry: pollInfo.c, devInfoJson.resp.b (hasB: the key is
\* present), devInfoJson.resp.a
\* and devInfoJson.name (<<>>: the key is absent or the name is empty).
DevTypeChoices ==
    [c : PollConfigs, hasB : {TRUE}, b : {2, 3}, a : GenSchemas,
     name : {<<"d">>}]
    \cup [c : PollConfigs, hasB : {FALSE}, b : {0}, a : GenSchemas,
          name : {<<"d">>}]

DevTypeTables ==
    UNION {[1..n -> DevTypeChoices] : n \in 1..MaxDevTypes}

\* poll_data_bytes(dev_type)
poll_data_bytes(dev_type) == PollingConfigResultLen(dev_type.c)

\* The byte extent of the declared attributes within one record: an
\* attribute with "at" starts there, any other where the sequential read
\* position stands.
RECURSIVE SchemaExtentFrom(_, _)
SchemaExtentFrom(a, pos) ==
    IF a = <<>> THEN 0
    ELSE LET el == Head(a)
             start == IF el.at >= 0 THEN el.at ELSE pos
             end == start + SizeOf(BufElemType(el))
             rest == SchemaExtentFrom(Tail(a), IF el.at >= 0 THEN pos ELSE end)
         IN  IF end > rest THEN end ELSE rest

SchemaExtent(a) == SchemaExtentFrom(a, 0)

\* The declared length taken from the attribute schema instead of "b".
poll_size_from_schema_mutant(dev_type) == SchemaExtent(dev_type.a)

\* poll_size_value_in_json = dev_type...get("resp", {}).get("b", 0)
poll_size_value_in_json(dev_type) == IF dev_type.hasB THEN dev_type.b ELSE 0

NoDiagnostic == [msg |-> "none"]

\* One piece of text written to the header file: what it is, the device
\* type key it is for, its text where the model keeps it, and the decode
\* function of a table record.
NoDecodeFn == [lambda |-> FALSE, struct_name |-> <<>>]

Written(kind, key, text, decode) ==
    [kind |-> kind, key |-> key, text |-> text, decode |-> decode]

StructPrefix == <<"s", "t", "r", "u", "c", "t", " ", "p", "o", "l", "l", "_">>

\* gen_struct_name(dev_info_json)
gen_struct_name(dev_type) ==
    IF dev_type.name = <<>> THEN <<>>
    ELSE StructPrefix \o to_valid_c_var_name(dev_type.name)

\* decode_fn(dev_type_record): "nullptr" for a device type without a name,
\* else a lambda that casts pStructOut to the device type's struct.
decode_fn(dev_type) ==
    IF gen_struct_name(dev_type) = <<>> THEN NoDecodeFn
    ELSE [lambda |-> TRUE, struct_name |-> gen_struct_name(dev_type)]

\* get_struct_defs(dev_type_records): the list of struct definitions, or
\* the string "nullptr" as soon as a device type has no name.
RECURSIVE StructDefsFrom(_, _, _)
StructDefsFrom(dev_type_records, i, struct_defs) ==
    IF i > Len(dev_type_records) THEN [list |-> TRUE, defs |-> struct_defs]
    ELSE LET struct_name == gen_struct_name(dev_type_records[i])
         IN  IF struct_name = <<>>
             THEN [list |-> FALSE, defs |-> <<"n", "u", "l", "l", "p", "t", "r">>]
             ELSE StructDefsFrom(dev_type_records, i + 1,
                                 Append(struct_defs, struct_name))

get_struct_defs(dev_type_records) == StructDefsFrom(dev_type_records, 1, <<>>)

\* for struct_def in struct_defs: header_file.write(struct_def): over a
\* list this writes each definition, over a string each character.
WriteStructDefs(struct_defs) ==
    [i \in 1..Len(struct_defs.defs) |->
        IF struct_defs.list
        THEN Written("struct_def", "", struct_defs.defs[i], NoDecodeFn)
        ELSE Written("char", "", <<struct_defs.defs[i]>>, NoDecodeFn)]

GenInit ==
    /\ gen_options \in [gen_decode : BOOLEAN]
    /\ devTypes \in DevTypeTables
    /\ gen_pc = "start"
    /\ dev_record_index = 0
    /\ header_created = FALSE
    /\ header_file = <<>>
    /\ exit_status = -1
    /\ diagnostic = NoDiagnostic

\* Tables for the struct definitions: every entry passes the length check
\* (3 bytes declared for the 3-byte polling config, 2 for "0x08=r2"); the
\* device type has no name, or one of two names.
DevNames == {<<>>, <<"d", "1">>, <<"d", "-", "2">>}

NamedDevTypeChoices ==
    [c : {PollConfig3Bytes}, hasB : {TRUE}, b : {3}, a : GenSchemas,
     name : DevNames]
    \cup [c : {EntryText(Registers[1], [val |-> ByteCount(2, "plain")])},
          hasB : {TRUE}, b : {2}, a : GenSchemas, name : DevNames]

LayoutInit ==
    /\ gen_options \in [gen_decode : BOOLEAN]
    /\ devTypes \in UNION {[1..n -> NamedDevTypeChoices] : n \in 1..MaxDevTypes}
    /\ gen_pc = "start"
    /\ dev_record_index = 0
    /\ header_created = FALSE
    /\ header_file = <<>>
    /\ exit_status = -1
    /\ diagnostic = NoDiagnostic

\* with open(header_path, 'w'): the file is created (truncated), the
\* preamble, the struct definitions (if enabled) and the opening of the
\* record array are written.
OpenHeader ==
    /\ gen_pc = "start"
    /\ header_created' = TRUE
    /\ header_file' =
           <<Written("#pragma once", "", <<>>, NoDecodeFn)>>
           \o (IF gen_options.gen_decode
               THEN WriteStructDefs(get_struct_defs(devTypes))
               ELSE <<>>)
           \o <<Written("static BusI2CDevTypeRecord baseDevTypeRecords[] =",
                        "", <<>>, NoDecodeFn)>>
    /\ gen_pc' = "records"
    /\ UNCHANGED <<gen_options, devTypes, dev_record_index, exit_status,
                   diagnostic>>
    /\ UNCHANGED notGenVars

\* One iteration of the loop over the records.
ProcessRecord ==
    /\ gen_pc = "records"
    /\ dev_record_index < Len(devTypes)
    /\ LET dev_type_key == DevTypeKeys[dev_record_index + 1]
           dev_type == devTypes[dev_record_index + 1]
           poll_data_size_bytes == poll_data_bytes(dev_type)
       IN  \/ \* the parser raises: the ValueError is not caught, Python
              \* prints the traceback with the error's message and exits 1
              /\ poll_data_size_bytes.raised
              /\ diagnostic' = [msg |-> "ValueError",
                                value |-> poll_data_size_bytes.bad]
              /\ exit_status' = 1
              /\ gen_pc' = "exit"
              /\ UNCHANGED <<header_file, dev_record_index>>
           \/ \* the size differs from the JSON value: print, sys.exit(1)
              /\ ~poll_data_size_bytes.raised
              /\ poll_data_size_bytes.len # poll_size_value_in_json(dev_type)
              /\ diagnostic' = [msg |-> "Poll data size mismatch for",
                                dev_type_key |-> dev_type_key,
                                JSON |-> poll_size_value_in_json(dev_type),
                                Calculated |-> poll_data_size_bytes.len]
              /\ exit_status' = 1
              /\ gen_pc' = "exit"
              /\ UNCHANGED <<header_file, dev_record_index>>
           \/ \* the record is written
              /\ ~poll_data_size_bytes.raised
              /\ poll_data_size_bytes.len = poll_size_value_in_json(dev_type)
              /\ header_file' =
                     Append(header_file,
                            Written("record", dev_type_key, <<>>,
                                    IF gen_options.gen_decode
                                    THEN decode_fn(dev_type)
                                    ELSE NoDecodeFn))
              /\ dev_record_index' = dev_record_index + 1
              /\ UNCHANGED <<gen_pc, exit_status, diagnostic>>
    /\ UNCHANGED <<gen_options, devTypes, header_created>>
    /\ UNCHANGED notGenVars

\* After the last record: the address tables and scan lists are written,
\* the file is closed and the script ends with sys.exit(0).
WriteTables ==
    /\ gen_pc = "records"
    /\ dev_record_index = Len(devTypes)
    /\ header_file' =
           Append(header_file, Written("tables", "", <<>>, NoDecodeFn))
    /\ exit_status' = 0
    /\ gen_pc' = "exit"
    /\ UNCHANGED <<gen_options, devTypes, dev_record_index, header_created,
                   diagnostic>>
    /\ UNCHANGED notGenVars

GenNext == OpenHeader \/ ProcessRecord \/ WriteTables

\* The generation run is not in progress.
GenIdle ==
    /\ gen_options = [gen_decode |-> FALSE]
    /\ devTypes = <<>>
    /\ gen_pc = "idle"
    /\ dev_record_index = 0
    /\ header_created = FALSE
    /\ header_file = <<>>
    /\ exit_status = -1
    /\ diagnostic = NoDiagnostic

\* The parser is not being run on its own.
ParseIdle ==
    /\ polling_config_record = <<>>
    /\ pc_entries = <<>>
    /\ pc_called = TRUE
    /\ pc_result = NoResult

(***************************************************************************)
(* The decode routine emitted by gen_extract_code for the attribute path,  *)
(* executed statement by statement.  Pointers are offsets: pBuf from       *)
(* pBufIn (so pBufEnd is bufLen), pOut from pStruct.  The get...AndInc     *)
(* helpers are taken to read their width at the position and advance it.   *)
(***************************************************************************)
\* is_attr_type_signed
is_attr_type_signed(t) ==
    t \in {"b", ">h", "<h", ">i", "<i", ">l", "<l", ">q", "<q"}

\* str.upper() on a type tag
Upper(t) ==
    CASE t = "b" -> "B"
      [] t = ">h" -> ">H"
      [] t = "<h" -> "<H"
      [] t = ">i" -> ">I"
      [] t = "<i" -> "<I"
      [] t = ">l" -> ">L"
      [] t = "<l" -> "<L"
      [] t = ">q" -> ">Q"
      [] t = "<q" -> "<Q"
      [] t = ">f" -> ">F"
      [] t = "<f" -> "<F"
      [] t = ">d" -> ">D"
      [] t = "<d" -> "<D"
      [] OTHER -> t

\* Bytes a get...AndInc helper reads and advances by
GetFnWidth(fn) ==
    CASE fn \in {"getUint8AndInc", "getInt8AndInc"} -> 1
      [] fn \in {"getBEInt16AndInc", "getLEInt16AndInc", "getBEUint16AndInc",
                 "getLEUint16AndInc"} -> 2
      [] fn \in {"getBEInt32AndInc", "getLEInt32AndInc", "getBEUint32AndInc",
                 "getLEUint32AndInc", "getBEfloat32AndInc",
                 "getLEfloat32AndInc"} -> 4
      [] fn \in {"getBEInt64AndInc", "getLEInt64AndInc", "getBEUint64AndInc",
                 "getLEUint64AndInc", "getBEdouble64AndInc",
                 "getLEdouble64AndInc"} -> 8

\* attr_get_and_inc_fn: the unsigned helper for a signed type with a mask
AttrGetFn(el) ==
    LET pystruct_type_for_extract ==
            IF is_attr_type_signed(el.t) /\ el.m # -1 THEN Upper(el.t)
            ELSE el.t
    IN  PyStructGetFn(pystruct_type_for_extract)

\* The attribute gets an extraction block (it has a known type).
AttrEmitted(el) == BufElemType(el) # ""

\* POLL_RESULT_WRAP_VALUE
POLL_RESULT_WRAP_VALUE(opts) ==
    IF opts.POLL_RESULT_TIMESTAMP_SIZE = 2 THEN 65536 ELSE 65536 * 65536

\* The helper the timestamp is read with
TimestampGetFn(opts) ==
    IF opts.POLL_RESULT_TIMESTAMP_SIZE = 2 THEN "getBEUint16AndInc"
    ELSE "getBEUint32AndInc"

\* poll_resp_len_inc_timestamp
RecLenIncTimestamp(meta, opts) == meta.b + opts.POLL_RESULT_TIMESTAMP_SIZE

\* gen_extract_code emits the record loop only for a resp with attributes
\* and a declared size; otherwise the routine is "return 0;".
EmitsLoop(meta) == Len(meta.a) # 0 /\ meta.hasB

\* if (pBuf + <len> >= pBufEnd) break;
RecordOverrunsOffByOneMutant(p, len, end) == p + len >= end

\* if (pBuf + <len> > pBufEnd) break;
RecordOverruns(p, len, end) == p + len > end

\* the check made on the position alone
AttrOverrunsFirstByteMutant(pos, el, end) == pos >= end

\* if (<pos> + sizeof(<buf_elem_type>) > pBufEnd) break;
AttrOverruns(pos, el, end) == pos + SizeOf(BufElemType(el)) > end

\* if (timestampUs <= decodeState.lastReportTimestampUs)
TimestampWrappedOrEqualMutant(timestampUs, last) == timestampUs <= last

\* if (timestampUs < decodeState.lastReportTimestampUs)
TimestampWrapped(timestampUs, last) == timestampUs < last

\* the corrected value kept as the last report timestamp
LastReportKeptCorrectedMutant(timestampUs, offset) == timestampUs + offset

\* decodeState.lastReportTimestampUs = timestampUs; which runs before
\* timestampUs += decodeState.reportTimestampOffsetUs;
LastReportKept(timestampUs, offset) == timestampUs

\* Assignment to a field of an unsigned C type.  Every value of the model
\* is below 2^31, so only the 8- and 16-bit types truncate here.
StoreUnsigned(v, c_type) ==
    IF SizeOf(c_type) >= 4 THEN v ELSE v % (2 ^ (8 * SizeOf(c_type)))

\* The fields of the emitted struct: the timestamp, then one per attribute
StructFields(meta, opts) ==
    <<opts.DECODE_STRUCT_TIMESTAMP_C_TYPE>>
    \o [i \in 1..Len(SelectSeq(meta.a, AttrEmitted)) |->
            BufElemType(SelectSeq(meta.a, AttrEmitted)[i])]

RECURSIVE LayoutEnd(_, _)
LayoutEnd(fields, off) ==
    IF fields = <<>> THEN off
    ELSE LET sz == SizeOf(Head(fields))
             aligned == ((off + sz - 1) \div sz) * sz
         IN  LayoutEnd(Tail(fields), aligned + sz)

RECURSIVE MaxFieldSize(_)
MaxFieldSize(fields) ==
    IF fields = <<>> THEN 1
    ELSE LET rest == MaxFieldSize(Tail(fields))
         IN  IF SizeOf(Head(fields)) > rest THEN SizeOf(Head(fields)) ELSE rest

\* sizeof(struct poll_<name>), fields naturally aligned
StructSize(meta, opts) ==
    LET fields == StructFields(meta, opts)
        al == MaxFieldSize(fields)
    IN  ((LayoutEnd(fields, 0) + al - 1) \div al) * al

Min(x, y) == IF x < y THEN x ELSE y

\* decode_fn's lambda is called: the arguments are chosen, the locals of
\* gen_extract_code are set up.
DecodeCall ==
    /\ dec_pc = "idle"
    /\ \E len \in bufLens,
          cnt \in 0..Min(MaxRecCount, MaxHistory - Len(rawHist)) :
         /\ bufLen' = len
         /\ maxRecCount' = cnt
         /\ \E cap \in {0, cnt} :
                structOutSize' = cap * StructSize(poll_resp_meta, dec_options)
    /\ numRecs' = 0
    /\ pOut' = 0
    /\ pBuf' = 0
    /\ pAttrStart' = 0
    /\ attrIdx' = 0
    /\ bytesRead' = {}
    /\ attrReads' = <<>>
    /\ slotsWritten' = {}
    /\ dec_pc' = IF EmitsLoop(poll_resp_meta) THEN "loop" ELSE "return"
    /\ UNCHANGED <<dec_options, poll_resp_meta, tsValues, bufLens, decodeState, retVal,
                   rawHist, usHist, outHist>>
    /\ UNCHANGED <<notDecodeVars, custVars>>

\* while (numRecs < maxRecCount) { pBuf = pBufIn + S * numRecs;
\*                                 if (pBuf + S > pBufEnd) break;
LoopTest ==
    /\ dec_pc = "loop"
    /\ LET S == RecLenIncTimestamp(poll_resp_meta, dec_options)
       IN  IF numRecs < maxRecCount /\ ~RecordOverruns(S * numRecs, S, bufLen)
           THEN pBuf' = S * numRecs /\ dec_pc' = "timestamp"
           ELSE pBuf' = pBuf /\ dec_pc' = "return"
    /\ UNCHANGED <<dec_options, poll_resp_meta, tsValues, bufLens, bufLen, maxRecCount,
                   structOutSize, numRecs, pAttrStart, pOut, attrIdx,
                   decodeState, bytesRead, attrReads, slotsWritten, retVal, rawHist,
                   usHist, outHist>>
    /\ UNCHANGED <<notDecodeVars, custVars>>

\* gen_timestamp_extract_code, then pAttrStart = pBuf.
ExtractTimestamp ==
    /\ dec_pc = "timestamp"
    /\ \E raw \in tsValues :
         LET width == GetFnWidth(TimestampGetFn(dec_options))
             res == dec_options.POLL_RESULT_RESOLUTION_US
             read == raw * res
             offset ==
                 IF TimestampWrapped(read, decodeState.lastReportTimestampUs)
                 THEN decodeState.reportTimestampOffsetUs
                          + POLL_RESULT_WRAP_VALUE(dec_options) * res
                 ELSE decodeState.reportTimestampOffsetUs
             timestampUs == read + offset
             stored ==
                 StoreUnsigned(
                     timestampUs
                         \div dec_options.DECODE_STRUCT_TIMESTAMP_RESOLUTION_US,
                     dec_options.DECODE_STRUCT_TIMESTAMP_C_TYPE)
         IN  /\ bytesRead' = bytesRead \cup (pBuf..(pBuf + width - 1))
             /\ attrReads' = <<>>
             /\ pBuf' = pBuf + width
             /\ pAttrStart' = pBuf + width
             /\ decodeState' = [lastReportTimestampUs |->
                                    LastReportKept(read, offset),
                                reportTimestampOffsetUs |-> offset]
             /\ slotsWritten' = slotsWritten \cup {pOut}
             /\ rawHist' = Append(rawHist, raw)
             /\ usHist' = Append(usHist, timestampUs)
             /\ outHist' = Append(outHist, stored)
    /\ attrIdx' = 1
    /\ dec_pc' = "attrs"
    /\ UNCHANGED <<dec_options, poll_resp_meta, tsValues, bufLens, bufLen, maxRecCount,
                   structOutSize, numRecs, pOut, retVal>>
    /\ UNCHANGED <<notDecodeVars, custVars>>

\* The block emitted for one attribute of the schema.
ExtractAttr ==
    /\ dec_pc = "attrs"
    /\ attrIdx <= Len(poll_resp_meta.a)
    /\ LET el == poll_resp_meta.a[attrIdx]
           pos == IF el.at # -1 THEN pAttrStart + el.at ELSE pBuf
           width == GetFnWidth(AttrGetFn(el))
       IN  IF ~AttrEmitted(el)
           THEN \* no block is emitted for it
                /\ attrIdx' = attrIdx + 1
                /\ UNCHANGED <<dec_pc, pBuf, bytesRead, attrReads, slotsWritten>>
           ELSE IF AttrOverruns(pos, el, bufLen)
           THEN \* break
                /\ dec_pc' = "return"
                /\ UNCHANGED <<attrIdx, pBuf, bytesRead, attrReads, slotsWritten>>
           ELSE \* the value is read (advancing pBuf unless pAbsPos is
                \* used) and stored to the output record
                /\ bytesRead' = bytesRead \cup (pos..(pos + width - 1))
                /\ attrReads' = Append(attrReads,
                                      [idx |-> attrIdx, pos |-> pos,
                                       end |-> pos + width])
                /\ pBuf' = IF el.at # -1 THEN pBuf ELSE pBuf + width
                /\ slotsWritten' = slotsWritten \cup {pOut}
                /\ attrIdx' = attrIdx + 1
                /\ UNCHANGED dec_pc
    /\ UNCHANGED <<dec_options, poll_resp_meta, tsValues, bufLens, bufLen, maxRecCount,
                   structOutSize, numRecs, pAttrStart, pOut, decodeState,
                   retVal, rawHist, usHist, outHist>>
    /\ UNCHANGED <<notDecodeVars, custVars>>

\* pOut++; numRecs++; }
CompleteLoop ==
    /\ dec_pc = "attrs"
    /\ attrIdx > Len(poll_resp_meta.a)
    /\ pOut' = pOut + 1
    /\ numRecs' = numRecs + 1
    /\ dec_pc' = "loop"
    /\ UNCHANGED <<dec_options, poll_resp_meta, tsValues, bufLens, bufLen, maxRecCount,
                   structOutSize, pBuf, pAttrStart, attrIdx, decodeState,
                   bytesRead, attrReads, slotsWritten, retVal, rawHist, usHist, outHist>>
    /\ UNCHANGED <<notDecodeVars, custVars>>

\* return pOut - pStruct;  (return 0; when no loop was emitted)
DecodeReturn ==
    /\ dec_pc = "return"
    /\ retVal' = pOut
    /\ dec_pc' = "returned"
    /\ UNCHANGED <<dec_options, poll_resp_meta, tsValues, bufLens, bufLen,
                   maxRecCount, structOutSize, numRecs, pBuf, pAttrStart, pOut,
                   attrIdx, decodeState, bytesRead, attrReads, slotsWritten, rawHist,
                   usHist, outHist>>
    /\ UNCHANGED <<notDecodeVars, custVars>>

\* The caller has consumed the records; only the decode state is kept
\* for the next poll result.
NextPollResult ==
    /\ dec_pc = "returned"
    /\ dec_pc' = "idle"
    /\ bufLen' = 0
    /\ maxRecCount' = 0
    /\ structOutSize' = 0
    /\ numRecs' = 0
    /\ pBuf' = 0
    /\ pAttrStart' = 0
    /\ pOut' = 0
    /\ attrIdx' = 0
    /\ bytesRead' = {}
    /\ attrReads' = <<>>
    /\ slotsWritten' = {}
    /\ retVal' = -1
    /\ UNCHANGED <<dec_options, poll_resp_meta, tsValues, bufLens, decodeState,
                   rawHist, usHist, outHist>>
    /\ UNCHANGED <<notDecodeVars, custVars>>

DecodeNext ==
    \/ DecodeCall
    \/ LoopTest
    \/ ExtractTimestamp
    \/ ExtractAttr
    \/ CompleteLoop
    \/ DecodeReturn
    \/ NextPollResult

\* Attribute schemas the routine is emitted for: none; sequential fields;
\* "at" fields; fields that reach past a short record; a sequential field
\* after an "at" field; signed fields with an AND mask.
DecodeSchemas ==
    { <<>>,
      << [t |-> "B", at |-> -1, m |-> -1] >>,
      << [t |-> ">h", at |-> -1, m |-> -1], [t |-> "B", at |-> -1, m |-> -1] >>,
      << [t |-> ">H", at |-> 0, m |-> -1], [t |-> "B", at |-> 2, m |-> -1] >>,
      << [t |-> "<I", at |-> -1, m |-> -1] >>,
      << [t |-> "B", at |-> 2, m |-> -1], [t |-> ">h", at |-> -1, m |-> 4095] >>,
      << [t |-> ">h", at |-> 2, m |-> -1] >>,
      << [t |-> "b", at |-> -1, m |-> 15], [t |-> ">H", at |-> 1, m |-> -1] >> }

DecodeRespMetas ==
    [hasB : {TRUE}, b : 0..MaxRecBytes, a : DecodeSchemas]
    \cup [hasB : {FALSE}, b : {0}, a : DecodeSchemas]

\* The state of the routine's variables before its first call.
DecodeStart ==
    /\ bufLen = 0
    /\ maxRecCount = 0
    /\ structOutSize = 0
    /\ numRecs = 0
    /\ pBuf = 0
    /\ pAttrStart = 0
    /\ pOut = 0
    /\ attrIdx = 0
    /\ decodeState = [lastReportTimestampUs |-> 0,
                      reportTimestampOffsetUs |-> 0]
    /\ bytesRead = {}
    /\ attrReads = <<>>
    /\ slotsWritten = {}
    /\ retVal = -1
    /\ rawHist = <<>>
    /\ usHist = <<>>
    /\ outHist = <<>>

\* Buffer bounds: every schema, record length and timestamp size, on
\* records whose timestamp field holds 0.
DecodeInit ==
    /\ dec_options \in
           [POLL_RESULT_TIMESTAMP_SIZE : {2, 4},
            POLL_RESULT_RESOLUTION_US : {1000},
            DECODE_STRUCT_TIMESTAMP_C_TYPE : {"uint32_t"},
            DECODE_STRUCT_TIMESTAMP_RESOLUTION_US : {1000}]
    /\ poll_resp_meta \in DecodeRespMetas
    /\ tsValues = {0}
    /\ bufLens = 0..((MaxBufRecs + 1)
                       * RecLenIncTimestamp(poll_resp_meta, dec_options) - 1)
    /\ dec_pc = "idle"
    /\ DecodeStart

\* Timestamps: one schema, buffers of whole records, 16-bit timestamps
\* taking the values 2, 5, 6, 9.
TimeInit ==
    /\ dec_options \in
           [POLL_RESULT_TIMESTAMP_SIZE : {2},
            POLL_RESULT_RESOLUTION_US : {1, 1000},
            DECODE_STRUCT_TIMESTAMP_C_TYPE : {"uint16_t", "uint32_t"},
            DECODE_STRUCT_TIMESTAMP_RESOLUTION_US : {1000}]
    /\ poll_resp_meta =
           [hasB |-> TRUE, b |-> 1, a |-> << [t |-> "B", at |-> -1, m |-> -1] >>]
    /\ tsValues = {2, 5, 6, 9}
    /\ bufLens = {k * RecLenIncTimestamp(poll_resp_meta, dec_options) :
                       k \in 0..MaxBufRecs}
    /\ dec_pc = "idle"
    /\ DecodeStart

\* Schemas that reach past the declared record length, on buffers of
\* whole records whose 16-bit timestamps take the values 2 and 5.
ShortRecordInit ==
    /\ dec_options =
           [POLL_RESULT_TIMESTAMP_SIZE |-> 2,
            POLL_RESULT_RESOLUTION_US |-> 1000,
            DECODE_STRUCT_TIMESTAMP_C_TYPE |-> "uint32_t",
            DECODE_STRUCT_TIMESTAMP_RESOLUTION_US |-> 1000]
    /\ poll_resp_meta \in
           [hasB : {TRUE}, b : {1},
            a : { << [t |-> ">h", at |-> -1, m |-> -1] >>,
                  << [t |-> "B", at |-> 0, m |-> -1],
                     [t |-> ">H", at |-> 1, m |-> -1] >> }]
    /\ tsValues = {2, 5}
    /\ bufLens = {k * RecLenIncTimestamp(poll_resp_meta, dec_options) :
                       k \in 0..MaxBufRecs}
    /\ dec_pc = "idle"
    /\ DecodeStart

\* No decode routine is being run.
DecodeIdle ==
    /\ dec_options =
           [POLL_RESULT_TIMESTAMP_SIZE |-> 2,
            POLL_RESULT_RESOLUTION_US |-> 1000,
            DECODE_STRUCT_TIMESTAMP_C_TYPE |-> "uint32_t",
            DECODE_STRUCT_TIMESTAMP_RESOLUTION_US |-> 1000]
    /\ poll_resp_meta = [hasB |-> FALSE, b |-> 0, a |-> <<>>]
    /\ tsValues = {}
    /\ bufLens = {}
    /\ dec_pc = "off"
    /\ DecodeStart

(***************************************************************************)
(* The decode routine emitted by gen_custom_extraction_code, for the       *)
(* custom program                                                          *)
(*   int N=buf[0];int k=1;int i=0;while(i<N){out.v=buf[k];k+=1;i++;next;}  *)
(* in which "next" is replaced by the loop_end_lines.  N is what the poll  *)
(* record holds in its first byte.                                         *)
(***************************************************************************)
MaxSynth == 2       \* largest N a poll record holds

\* The timestamp field of the output slots pOut .. pOut + n - 1, in order.
SlotTimes(times, n) == [i \in 1..n |-> times[i - 1]]

\* The routine is called: arguments chosen, locals of gen_extract_code set.
CustomCall ==
    /\ dec_pc = "c_idle"
    /\ \E len \in bufLens,
          cnt \in 0..Min(MaxRecCount, MaxHistory - Len(outHist)) :
         /\ len \div RecLenIncTimestamp(poll_resp_meta, dec_options)
                <= MaxHistory - Len(rawHist)
         /\ bufLen' = len
         /\ maxRecCount' = cnt
         /\ structOutSize' = cnt * StructSize(poll_resp_meta, dec_options)
    /\ pOut' = 0
    /\ pollRecIdx' = 0
    /\ pBuf' = 0
    /\ custTimestampUs' = 0
    /\ synthN' = 0
    /\ synthIdx' = 0
    /\ slotTime' = <<>>
    /\ bytesRead' = {}
    /\ attrReads' = <<>>
    /\ slotsWritten' = {}
    /\ dec_pc' = "c_outer"
    /\ UNCHANGED <<dec_options, poll_resp_meta, tsValues, bufLens, numRecs,
                   pAttrStart, attrIdx, decodeState, retVal, rawHist, usHist,
                   outHist, record_time_increment_us, synthCounts>>
    /\ UNCHANGED notDecodeVars

\* while (pOut < pStruct + maxRecCount) { pBuf = pBufIn + S * pollRecIdx;
\*                                        if (pBuf + S > pBufEnd) break;
CustomLoopTest ==
    /\ dec_pc = "c_outer"
    /\ LET S == RecLenIncTimestamp(poll_resp_meta, dec_options)
       IN  IF pOut < maxRecCount /\ ~RecordOverruns(S * pollRecIdx, S, bufLen)
           THEN pBuf' = S * pollRecIdx /\ dec_pc' = "c_timestamp"
           ELSE pBuf' = pBuf /\ dec_pc' = "c_return"
    /\ UNCHANGED <<dec_options, poll_resp_meta, tsValues, bufLens, bufLen,
                   maxRecCount, structOutSize, numRecs, pAttrStart, pOut,
                   attrIdx, decodeState, bytesRead, attrReads, slotsWritten, retVal,
                   rawHist, usHist, outHist>>
    /\ UNCHANGED custVars
    /\ UNCHANGED notDecodeVars

\* gen_timestamp_extract_code, then buf = pBuf; int N=buf[0]; k=1; i=0;
CustomTimestamp ==
    /\ dec_pc = "c_timestamp"
    /\ \E raw \in tsValues, n \in synthCounts :
         LET width == GetFnWidth(TimestampGetFn(dec_options))
             res == dec_options.POLL_RESULT_RESOLUTION_US
             read == raw * res
             offset ==
                 IF TimestampWrapped(read, decodeState.lastReportTimestampUs)
                 THEN decodeState.reportTimestampOffsetUs
                          + POLL_RESULT_WRAP_VALUE(dec_options) * res
                 ELSE decodeState.reportTimestampOffsetUs
             stored ==
                 StoreUnsigned(
                     (read + offset)
                         \div dec_options.DECODE_STRUCT_TIMESTAMP_RESOLUTION_US,
                     dec_options.DECODE_STRUCT_TIMESTAMP_C_TYPE)
         IN  /\ bytesRead' = bytesRead \cup (pBuf..(pBuf + width - 1))
             /\ UNCHANGED attrReads
             /\ pBuf' = pBuf + width
             /\ decodeState' = [lastReportTimestampUs |->
                                    LastReportKept(read, offset),
                                reportTimestampOffsetUs |-> offset]
             /\ custTimestampUs' = read + offset
             /\ slotTime' = (pOut :> stored) @@ slotTime
             /\ slotsWritten' = slotsWritten \cup {pOut}
             /\ rawHist' = Append(rawHist, raw)
             /\ usHist' = Append(usHist, read + offset)
             /\ synthN' = n
    /\ synthIdx' = 0
    /\ dec_pc' = "c_inner"
    /\ UNCHANGED <<dec_options, poll_resp_meta, tsValues, bufLens, bufLen,
                   maxRecCount, structOutSize, numRecs, pAttrStart, pOut,
                   attrIdx, retVal, outHist, record_time_increment_us,
                   synthCounts, pollRecIdx>>
    /\ UNCHANGED notDecodeVars

\* while (i<N) { pOut->v=buf[k]; k+=1; i++;
\*     if (++pOut >= pStruct + maxRecCount) break;
\*     timestampUs += <us>;
\*     pOut-><time> = timestampUs / <resolution>; }
CustomRecord ==
    /\ dec_pc = "c_inner"
    /\ synthIdx < synthN
    /\ slotsWritten' = slotsWritten \cup {pOut}
    /\ synthIdx' = synthIdx + 1
    /\ pOut' = pOut + 1
    /\ IF pOut + 1 >= maxRecCount
       THEN /\ dec_pc' = "c_complete"
            /\ UNCHANGED <<custTimestampUs, slotTime>>
       ELSE /\ custTimestampUs' = custTimestampUs + record_time_increment_us
            /\ slotTime' =
                   ((pOut + 1) :>
                        StoreUnsigned(
                            (custTimestampUs + record_time_increment_us)
                                \div dec_options.DECODE_STRUCT_TIMESTAMP_RESOLUTION_US,
                            dec_options.DECODE_STRUCT_TIMESTAMP_C_TYPE))
                   @@ slotTime
            /\ UNCHANGED dec_pc
    /\ UNCHANGED <<dec_options, poll_resp_meta, tsValues, bufLens, bufLen,
                   maxRecCount, structOutSize, numRecs, pBuf, pAttrStart,
                   attrIdx, decodeState, bytesRead, attrReads, retVal, rawHist, usHist,
                   outHist, record_time_increment_us, synthCounts, pollRecIdx,
                   synthN>>
    /\ UNCHANGED notDecodeVars

\* pollRecIdx++; }
CustomCompleteLoop ==
    /\ \/ dec_pc = "c_complete"
       \/ dec_pc = "c_inner" /\ synthIdx >= synthN
    /\ pollRecIdx' = pollRecIdx + 1
    /\ dec_pc' = "c_outer"
    /\ UNCHANGED <<dec_options, poll_resp_meta, tsValues, bufLens, bufLen,
                   maxRecCount, structOutSize, numRecs, pBuf, pAttrStart, pOut,
                   attrIdx, decodeState, bytesRead, attrReads, slotsWritten, retVal,
                   rawHist, usHist, outHist, record_time_increment_us,
                   synthCounts, custTimestampUs, synthN, synthIdx, slotTime>>
    /\ UNCHANGED notDecodeVars

\* return pOut - pStruct;  the caller takes that many records.
CustomReturn ==
    /\ dec_pc = "c_return"
    /\ retVal' = pOut
    /\ outHist' = outHist \o SlotTimes(slotTime, pOut)
    /\ dec_pc' = "c_returned"
    /\ UNCHANGED <<dec_options, poll_resp_meta, tsValues, bufLens, bufLen,
                   maxRecCount, structOutSize, numRecs, pBuf, pAttrStart, pOut,
                   attrIdx, decodeState, bytesRead, attrReads, slotsWritten, rawHist,
                   usHist>>
    /\ UNCHANGED custVars
    /\ UNCHANGED notDecodeVars

\* Only the decode state is kept for the next poll result.
CustomNextPollResult ==
    /\ dec_pc = "c_returned"
    /\ dec_pc' = "c_idle"
    /\ bufLen' = 0
    /\ maxRecCount' = 0
    /\ structOutSize' = 0
    /\ pBuf' = 0
    /\ pOut' = 0
    /\ pollRecIdx' = 0
    /\ custTimestampUs' = 0
    /\ synthN' = 0
    /\ synthIdx' = 0
    /\ slotTime' = <<>>
    /\ bytesRead' = {}
    /\ attrReads' = <<>>
    /\ slotsWritten' = {}
    /\ retVal' = -1
    /\ UNCHANGED <<dec_options, poll_resp_meta, tsValues, bufLens, numRecs,
                   pAttrStart, attrIdx, decodeState, rawHist, usHist, outHist,
                   record_time_increment_us, synthCounts>>
    /\ UNCHANGED notDecodeVars

CustomNext ==
    \/ CustomCall
    \/ CustomLoopTest
    \/ CustomTimestamp
    \/ CustomRecord
    \/ CustomCompleteLoop
    \/ CustomReturn
    \/ CustomNextPollResult

\* The custom path's variables before the first call.
CustomStart ==
    /\ pollRecIdx = 0
    /\ custTimestampUs = 0
    /\ synthN = 0
    /\ synthIdx = 0
    /\ slotTime = <<>>

\* One custom schema with the default options, a per-record increment of
\* 0, 1 or 40 ms, buffers of whole records, timestamps 2, 3, 5.
CustomInit ==
    /\ dec_options =
           [POLL_RESULT_TIMESTAMP_SIZE |-> 2,
            POLL_RESULT_RESOLUTION_US |-> 1000,
            DECODE_STRUCT_TIMESTAMP_C_TYPE |-> "uint32_t",
            DECODE_STRUCT_TIMESTAMP_RESOLUTION_US |-> 1000]
    /\ poll_resp_meta =
           [hasB |-> TRUE, b |-> 1, a |-> << [t |-> "B", at |-> -1, m |-> -1] >>]
    /\ record_time_increment_us \in {0, 1000, 40000}
    /\ synthCounts = 0..MaxSynth
    /\ tsValues = {2, 3, 5}
    /\ bufLens = {k * RecLenIncTimestamp(poll_resp_meta, dec_options) :
                       k \in 0..MaxBufRecs}
    /\ dec_pc = "c_idle"
    /\ DecodeStart
    /\ CustomStart

\* The custom path on timestamps that wrap (5, then 2), each synthesized
\* record one millisecond after the one before.
CustomWrapInit ==
    /\ dec_options =
           [POLL_RESULT_TIMESTAMP_SIZE |-> 2,
            POLL_RESULT_RESOLUTION_US |-> 1000,
            DECODE_STRUCT_TIMESTAMP_C_TYPE |-> "uint32_t",
            DECODE_STRUCT_TIMESTAMP_RESOLUTION_US |-> 1000]
    /\ poll_resp_meta =
           [hasB |-> TRUE, b |-> 1, a |-> << [t |-> "B", at |-> -1, m |-> -1] >>]
    /\ record_time_increment_us = 1000
    /\ synthCounts = 0..MaxSynth
    /\ tsValues = {2, 5}
    /\ bufLens = {k * RecLenIncTimestamp(poll_resp_meta, dec_options) :
                       k \in 0..MaxBufRecs}
    /\ dec_pc = "c_idle"
    /\ DecodeStart
    /\ CustomStart

\* The custom path is not in use.
CustomIdle ==
    /\ record_time_increment_us = 0
    /\ synthCounts = {}
    /\ CustomStart

(***************************************************************************)
(* The block gen_attr_extraction_code emits for one attribute, run on one  *)
(* raw value.  C integers are two's complement: the bit operators work on  *)
(* integers of any sign, and a value is wrapped to its type when assigned. *)
(***************************************************************************)
MaxMaskBits == 3    \* widest AND mask, in bits
MaxShift == 1       \* largest bit shift, either way

RECURSIVE BitAnd(_, _)
BitAnd(x, y) ==
    IF x = 0 \/ y = 0 THEN 0
    ELSE IF x = -1 THEN y
    ELSE IF y = -1 THEN x
    ELSE 2 * BitAnd(x \div 2, y \div 2)
             + (IF x % 2 = 1 /\ y % 2 = 1 THEN 1 ELSE 0)

RECURSIVE BitOr(_, _)
BitOr(x, y) ==
    IF x = 0 THEN y
    ELSE IF y = 0 THEN x
    ELSE IF x = -1 \/ y = -1 THEN -1
    ELSE 2 * BitOr(x \div 2, y \div 2)
             + (IF x % 2 = 1 \/ y % 2 = 1 THEN 1 ELSE 0)

RECURSIVE BitXor(_, _)
BitXor(x, y) ==
    IF x = 0 THEN y
    ELSE IF y = 0 THEN x
    ELSE IF x = -1 /\ y = -1 THEN 0
    ELSE 2 * BitXor(x \div 2, y \div 2)
             + (IF x % 2 # y % 2 THEN 1 ELSE 0)

\* ~x
BitNot(x) == 0 - x - 1

\* x / y of C: the quotient truncated towards zero (y > 0)
TruncDiv(x, y) == IF x >= 0 THEN x \div y ELSE 0 - ((0 - x) \div y)

IsSignedCType(c_type) ==
    c_type \in {"int8_t", "int16_t", "int32_t", "int64_t"}

\* Assignment to a variable or field of an integer C type.  Values of the
\* model stay below 2^31, so only the 8- and 16-bit types wrap here.
StoreTo(v, c_type) ==
    LET range == 2 ^ (8 * SizeOf(c_type))
    IN  IF SizeOf(c_type) >= 4 THEN v
        ELSE IF IsSignedCType(c_type)
        THEN ((v + range \div 2) % range) - range \div 2
        ELSE v % range

\* larger_signed_c_type / _get_larger_type(c_type, True)
LargerSignedType(c_type) ==
    CASE c_type \in {"uint8_t", "int8_t"} -> "int16_t"
      [] c_type \in {"uint16_t", "int16_t"} -> "int32_t"
      [] c_type \in {"uint32_t", "int32_t", "uint64_t"} -> "int64_t"
      [] OTHER -> c_type

\* intermediate_type = get_c_eqv_type(el, False, True)
IntermediateType(el) == LargerSignedType(BufElemType(el))

\* What a get...AndInc helper returns for the bytes it reads: the value of
\* the width and signedness its name carries.
GetFnSigned(fn) ==
    fn \in {"getInt8AndInc", "getBEInt16AndInc", "getLEInt16AndInc",
            "getBEInt32AndInc", "getLEInt32AndInc", "getBEInt64AndInc",
            "getLEInt64AndInc"}

GetFnValue(fn, raw) ==
    LET range == 2 ^ (8 * GetFnWidth(fn))
    IN  IF GetFnSigned(fn) /\ raw >= range \div 2 THEN raw - range ELSE raw

\* One emitted statement.
Stmt(op, k, k2) == [op |-> op, k |-> k, k2 |-> k2]

\* <intermediate_type> __<name> = <attr_get_and_inc_fn>(<pos>, pBufEnd);
ExtractStmts(el) == <<Stmt("extract", 0, 0)>>

\* if "x" in el: __<name> ^= 0x<mask>;
XorStmts(el) == IF el.x # -1 THEN <<Stmt("xor", el.x, 0)>> ELSE <<>>

\* the bit above the mask taken as its sign bit
SignBitAboveMaskMutant(mask) == mask + 1

\* sign_bit_mask = (mask + 1) >> 1
SignBitOfMask(mask) == (mask + 1) \div 2

\* if "m" in el: sign extension for a signed type, else __<name> &= 0x<mask>;
AndMaskStmts(el) ==
    IF el.m = -1 THEN <<>>
    ELSE IF is_attr_type_signed(el.t)
    THEN <<Stmt("signext", el.m, SignBitOfMask(el.m))>>
    ELSE <<Stmt("and", el.m, 0)>>

\* the sign bit's own value subtracted
SignBitSubtrahendOnceMutant(sign_bit_mask) == sign_bit_mask

\* {sign_bit_mask << 1}
SignBitSubtrahend(sign_bit_mask) == sign_bit_mask * 2

\* if "sb" in el: with "ss" subtract from it, else subtract twice the bit
SignBitStmts(el) ==
    IF el.sb = -1 THEN <<>>
    ELSE IF el.ss # -1
    THEN <<Stmt("signbit_from", 2 ^ el.sb, el.ss)>>
    ELSE <<Stmt("signbit_sub", 2 ^ el.sb, SignBitSubtrahend(2 ^ el.sb))>>

\* if "s" in el and el["s"] != 0: <<= for a positive amount, >>= otherwise
ShiftStmts(el) ==
    IF el.s > 0 THEN <<Stmt("shl", el.s, 0)>>
    ELSE IF el.s < 0 THEN <<Stmt("shr", 0 - el.s, 0)>>
    ELSE <<>>

\* pOut-><name> = __<name>;
StoreStmts(el) == <<Stmt("store", 0, 0)>>

\* if "d" in el and el["d"] != 0: pOut-><name> /= <divisor>;
DivideStmts(el) == IF el.d # 0 THEN <<Stmt("div", el.d, 0)>> ELSE <<>>

\* if "a" in el and el["a"] != 0: pOut-><name> += <addition>;
AddStmts(el) == IF el.a # 0 THEN <<Stmt("add", el.a, 0)>> ELSE <<>>

\* the block with the shift emitted before the masks
AttrBlockShiftFirstMutant(el) ==
    ExtractStmts(el) \o ShiftStmts(el) \o XorStmts(el) \o AndMaskStmts(el)
    \o SignBitStmts(el) \o StoreStmts(el) \o DivideStmts(el) \o AddStmts(el)

\* The statements of the block, in the order the generator appends them.
AttrBlock(el) ==
    ExtractStmts(el) \o XorStmts(el) \o AndMaskStmts(el) \o SignBitStmts(el)
    \o ShiftStmts(el) \o StoreStmts(el) \o DivideStmts(el) \o AddStmts(el)

\* c_like_types: the override names the generator recognises
CLikeTypes ==
    {"int8", "int8_t", "uint8", "uint8_t", "int16", "int16_t", "uint16",
     "uint16_t", "int32", "int32_t", "uint32", "uint32_t", "int64", "int64_t",
     "uint64", "uint64_t", "float", "double", "bool"}

\* c_like_types[o]
CLikeCType(o) ==
    CASE o \in {"int8", "int8_t"} -> "int8_t"
      [] o \in {"uint8", "uint8_t"} -> "uint8_t"
      [] o \in {"int16", "int16_t"} -> "int16_t"
      [] o \in {"uint16", "uint16_t"} -> "uint16_t"
      [] o \in {"int32", "int32_t"} -> "int32_t"
      [] o \in {"uint32", "uint32_t"} -> "uint32_t"
      [] o \in {"int64", "int64_t"} -> "int64_t"
      [] o \in {"uint64", "uint64_t"} -> "uint64_t"
      [] o = "float" -> "float"
      [] o = "double" -> "double"
      [] o = "bool" -> "bool"

\* the compact tag consulted before the override
FieldCTypeTagFirstMutant(el) ==
    IF el.t \in PyStructTags THEN PyStructCType(el.t)
    ELSE IF el.o \in CLikeTypes THEN CLikeCType(el.o) ELSE ""

\* get_c_eqv_type(el, True, False): the type of the record-layout field
\* (o = "" stands for an attribute without the "o" key)
FieldCType(el) ==
    IF el.o \in CLikeTypes THEN CLikeCType(el.o) ELSE BufElemType(el)

\* The statement the block is at.
AttrStmt == attr_block[attr_pc]

AttrAt(ops) == attr_pc \in 1..Len(attr_block) /\ AttrStmt.op \in ops

\* The statement has run, leaving these values.
AttrAdvance(v, out) ==
    /\ attr_var' = v
    /\ attr_out' = out
    /\ attr_hist' = Append(attr_hist, <<v, out>>)
    /\ attr_pc' = attr_pc + 1
    /\ UNCHANGED <<attr_el, attr_block, attr_raw>>
    /\ UNCHANGED notAttrVars

AttrExtract ==
    /\ AttrAt({"extract"})
    /\ AttrAdvance(StoreTo(GetFnValue(AttrGetFn(attr_el), attr_raw),
                           IntermediateType(attr_el)),
                   attr_out)

AttrXor ==
    /\ AttrAt({"xor"})
    /\ AttrAdvance(StoreTo(BitXor(attr_var, AttrStmt.k),
                           IntermediateType(attr_el)),
                   attr_out)

\* if (__x & <sign_bit_mask>) { __x |= ~<mask> & ~<sign_bit_mask>; }
\* or __x &= 0x<mask>;
AttrAndMask ==
    /\ AttrAt({"signext", "and"})
    /\ LET masked ==
               IF AttrStmt.op = "and" THEN BitAnd(attr_var, AttrStmt.k)
               ELSE IF BitAnd(attr_var, AttrStmt.k2) # 0
               THEN BitOr(attr_var,
                          BitAnd(BitNot(AttrStmt.k), BitNot(AttrStmt.k2)))
               ELSE attr_var
       IN  AttrAdvance(StoreTo(masked, IntermediateType(attr_el)), attr_out)

\* if (__x & 0x<sign_bit_mask>) __x = 0x<ss> - __x;
\* or if (__x & 0x<sign_bit_mask>) __x -= <sign_bit_mask << 1>;
AttrSignBit ==
    /\ AttrAt({"signbit_from", "signbit_sub"})
    /\ LET handled ==
               IF BitAnd(attr_var, AttrStmt.k) = 0 THEN attr_var
               ELSE IF AttrStmt.op = "signbit_from"
               THEN AttrStmt.k2 - attr_var
               ELSE attr_var - AttrStmt.k2
       IN  AttrAdvance(StoreTo(handled, IntermediateType(attr_el)), attr_out)

\* __x <<= n;  or  __x >>= n;  (two's complement, arithmetic right shift)
AttrShift ==
    /\ AttrAt({"shl", "shr"})
    /\ LET shifted ==
               IF AttrStmt.op = "shl" THEN attr_var * (2 ^ AttrStmt.k)
               ELSE attr_var \div (2 ^ AttrStmt.k)
       IN  AttrAdvance(StoreTo(shifted, IntermediateType(attr_el)), attr_out)

AttrStore ==
    /\ AttrAt({"store"})
    /\ AttrAdvance(attr_var, StoreTo(attr_var, FieldCType(attr_el)))

AttrDivide ==
    /\ AttrAt({"div"})
    /\ AttrAdvance(attr_var,
                   StoreTo(TruncDiv(attr_out, AttrStmt.k),
                           FieldCType(attr_el)))

AttrAdd ==
    /\ AttrAt({"add"})
    /\ AttrAdvance(attr_var,
                   StoreTo(attr_out + AttrStmt.k, FieldCType(attr_el)))

AttrNext ==
    \/ AttrExtract
    \/ AttrXor
    \/ AttrAndMask
    \/ AttrSignBit
    \/ AttrShift
    \/ AttrStore
    \/ AttrDivide
    \/ AttrAdd

\* Attributes of 8- and 16-bit types with every subset of the transform
\* fields; -1 (0 for s, d, a) stands for an absent key.  "ss" without "sb"
\* is among them.
AttrElems ==
    [t : {"b", "B", ">h", ">H"}, o : {""}, at : {-1},
     x : {-1, 5},
     m : {-1} \cup {2 ^ w - 1 : w \in 1..MaxMaskBits},
     sb : {-1, 2},
     ss : {-1, 8},
     s : (0 - MaxShift)..MaxShift,
     d : {0, 4},
     a : {0, 7}]

\* Raw values: every low nibble under four high nibbles for one byte,
\* sixteen patterns for two bytes.
RawValues(el) ==
    IF SizeOf(BufElemType(el)) = 1
    THEN {16 * h + l : h \in {0, 3, 8, 15}, l \in 0..15}
    ELSE {4369 * k : k \in 0..15}

AttrInit ==
    /\ attr_el \in AttrElems
    /\ attr_block = AttrBlock(attr_el)
    /\ attr_raw \in RawValues(attr_el)
    /\ attr_pc = 1
    /\ attr_var = 0
    /\ attr_out = 0
    /\ attr_hist = <<>>

\* No attribute block is being run.
AttrIdle ==
    /\ attr_el = [t |-> "B", o |-> "", at |-> -1, x |-> -1, m |-> -1,
                  sb |-> -1, ss |-> -1, s |-> 0, d |-> 0, a |-> 0]
    /\ attr_block = <<>>
    /\ attr_raw = 0
    /\ attr_pc = 0
    /\ attr_var = 0
    /\ attr_out = 0
    /\ attr_hist = <<>>

(***************************************************************************)
(* Running to_valid_c_var_name on a name, and on what it returned.         *)
(***************************************************************************)
MaxNameLen == 3     \* longest attribute name

\* Characters names are made of: a letter, a digit, the underscore, a
\* blank and a hyphen.
NameChars == {"a", "1", "_", " ", "-"}

Names == UNION {[1..n -> NameChars] : n \in 0..MaxNameLen}

NameInit ==
    /\ attr_name \in Names
    /\ name_results = <<>>

\* The function is called on the name, then on its own result.
SanitizeName ==
    /\ Len(name_results) < 2
    /\ name_results' =
           Append(name_results,
                  to_valid_c_var_name(IF name_results = <<>> THEN attr_name
                                      ELSE name_results[Len(name_results)]))
    /\ UNCHANGED attr_name
    /\ UNCHANGED notNameVars

NameNext == SanitizeName

\* to_valid_c_var_name is not being run on its own.
NameIdle ==
    /\ attr_name = <<>>
    /\ name_results = <<>>

(***************************************************************************)
(* One attribute through gen_struct_elements (the record layout) and the   *)
(* head of gen_attr_extraction_code (the decode routine).                  *)
(***************************************************************************)
\* get_c_eqv_type prints "get_c_eqv_type unknown type: <t>": the override
\* is not taken, the tag is not empty and not in pystruct_map.
UnknownTypePrinted(el, use_o_field_if_present) ==
    /\ ~(use_o_field_if_present /\ el.o \in CLikeTypes)
    /\ el.t # ""
    /\ el.t \notin PyStructTags

\* form_attr_def(attr_rec): "" or c_type + " " + attr_name
form_attr_def(attr_rec) ==
    IF attr_rec.n = <<>> \/ attr_rec.t = "" THEN [def |-> FALSE]
    ELSE [def |-> TRUE, c_type |-> FieldCType(attr_rec),
          attr_name |-> to_valid_c_var_name(attr_rec.n)]

\* gen_struct_elements, the loop body for the attribute.
GenStructElement ==
    /\ type_pc = "struct"
    /\ struct_lines' =
           IF form_attr_def(type_el).def
           THEN Append(struct_lines, form_attr_def(type_el))
           ELSE struct_lines
    /\ type_printed' =
           IF type_el.n # <<>> /\ UnknownTypePrinted(type_el, TRUE)
           THEN Append(type_printed, type_el.t)
           ELSE type_printed
    /\ type_pc' = "decode"
    /\ UNCHANGED <<type_el, extract_blocks>>
    /\ UNCHANGED notTypeVars

\* gen_attr_extraction_code, the loop body for the attribute up to the
\* extraction statement: skipped without a name, a type tag or a C type.
GenAttrExtraction ==
    /\ type_pc = "decode"
    /\ extract_blocks' =
           IF type_el.n = <<>> \/ type_el.t = "" \/ BufElemType(type_el) = ""
           THEN extract_blocks
           ELSE Append(extract_blocks,
                       [attr_name |-> to_valid_c_var_name(type_el.n),
                        buf_elem_type |-> BufElemType(type_el),
                        intermediate_type |-> IntermediateType(type_el),
                        attr_get_and_inc_fn |-> AttrGetFn(type_el)])
    /\ type_printed' =
           IF type_el.n # <<>> /\ UnknownTypePrinted(type_el, FALSE)
           THEN Append(type_printed, type_el.t)
           ELSE type_printed
    /\ type_pc' = "done"
    /\ UNCHANGED <<type_el, struct_lines>>
    /\ UNCHANGED notTypeVars

TypeNext == GenStructElement \/ GenAttrExtraction

\* Attributes: without and with a name, every tag of the map, an unknown
\* tag and no tag, every recognised override, an unrecognised one and none.
TypeElems ==
    [n : {<<>>, <<"x">>, <<"1", "x">>},
     t : PyStructTags \cup {"zz", ""},
     o : CLikeTypes \cup {"int", ""},
     m : {-1}]

TypeInit ==
    /\ type_el \in TypeElems
    /\ type_pc = "struct"
    /\ struct_lines = <<>>
    /\ extract_blocks = <<>>
    /\ type_printed = <<>>

\* No attribute is being generated.
TypeIdle ==
    /\ type_el = [n |-> <<>>, t |-> "", o |-> "", m |-> -1]
    /\ type_pc = "off"
    /\ struct_lines = <<>>
    /\ extract_blocks = <<>>
    /\ type_printed = <<>>

(***************************************************************************)
(* PseudocodeHandler: the lexer and the three emitters.  Texts are         *)
(* sequences of characters; a regular expression is modelled by the        *)
(* characters it consumes at a position.                                   *)
(***************************************************************************)
MaxWords == 3       \* most words a pseudocode program is made of

\* One alternative of the token regular expression: a keyword followed by
\* a word boundary, the identifier pattern, \d+, \d+\.\d*, a run of
\* blanks or tabs, or literal text.  REL_OP's alternatives are listed in
\* its own order.
Pat(kind, class, text) == [kind |-> kind, class |-> class, text |-> text]

token_dict ==
    << Pat("INT", "keyword", <<"i", "n", "t">>),
       Pat("FLOAT", "keyword", <<"f", "l", "o", "a", "t">>),
       Pat("RETURN", "keyword", <<"r", "e", "t", "u", "r", "n">>),
       Pat("WHILE", "keyword", <<"w", "h", "i", "l", "e">>),
       Pat("NEXT", "keyword", <<"n", "e", "x", "t">>),
       Pat("ID", "identifier", <<>>),
       Pat("NUM_INT", "digits", <<>>),
       Pat("NUM_FLOAT", "float", <<>>),
       Pat("LOGICAL_AND", "literal", <<"&", "&">>),
       Pat("LOGICAL_OR", "literal", <<"|", "|">>),
       Pat("LOGICAL_NOT", "literal", <<"!">>),
       Pat("SHIFT_LEFT", "literal", <<"<", "<">>),
       Pat("SHIFT_RIGHT", "literal", <<">", ">">>),
       Pat("BITWISE_AND", "literal", <<"&">>),
       Pat("BITWISE_OR", "literal", <<"|">>),
       Pat("BITWISE_XOR", "literal", <<"^">>),
       Pat("BITWISE_NOT", "literal", <<"~">>),
       Pat("INC_OP", "literal", <<"+", "+">>),
       Pat("DEC_OP", "literal", <<"-", "-">>),
       Pat("ADD_OP", "literal", <<"+">>),
       Pat("SUB_OP", "literal", <<"-">>),
       Pat("MUL_OP", "literal", <<"*">>),
       Pat("DIV_OP", "literal", <<"/">>),
       Pat("MOD_OP", "literal", <<"%">>),
       Pat("REL_OP", "literal", <<"=", "=">>),
       Pat("REL_OP", "literal", <<"!", "=">>),
       Pat("REL_OP", "literal", <<"<", "=">>),
       Pat("REL_OP", "literal", <<">", "=">>),
       Pat("REL_OP", "literal", <<"<">>),
       Pat("REL_OP", "literal", <<">">>),
       Pat("ASSIGN", "literal", <<"=">>),
       Pat("SEMI", "literal", <<";">>),
       Pat("COMMA", "literal", <<",">>),
       Pat("LPAREN", "literal", <<"(">>),
       Pat("RPAREN", "literal", <<")">>),
       Pat("LBRACE", "literal", <<"{">>),
       Pat("RBRACE", "literal", <<"}">>),
       Pat("LBRACK", "literal", <<"[">>),
       Pat("RBRACK", "literal", <<"]">>),
       Pat("WHITESPACE", "blanks", <<>>),
       Pat("NEWLINE", "literal", <<"\n">>) >>

\* [a-zA-Z_]
IsNameStart(c) == c \in Letters \/ c = "_"

\* How many characters from position i on satisfy the test (greedy run).
RECURSIVE RunOfWord(_, _)
RunOfWord(code, i) ==
    IF i <= Len(code) /\ IsWordChar(code[i]) THEN 1 + RunOfWord(code, i + 1)
    ELSE 0

RECURSIVE RunOfDigits(_, _)
RunOfDigits(code, i) ==
    IF i <= Len(code) /\ IsDigit(code[i]) THEN 1 + RunOfDigits(code, i + 1)
    ELSE 0

RECURSIVE RunOfBlanks(_, _)
RunOfBlanks(code, i) ==
    IF i <= Len(code) /\ code[i] \in {" ", "\t"}
    THEN 1 + RunOfBlanks(code, i + 1)
    ELSE 0

\* (?:\.[a-zA-Z_][a-zA-Z0-9_]*)* from position i on
RECURSIVE RunOfDottedParts(_, _)
RunOfDottedParts(code, i) ==
    IF i + 1 <= Len(code) /\ code[i] = "." /\ IsNameStart(code[i + 1])
    THEN LET n == 1 + RunOfWord(code, i + 1)
         IN  n + RunOfDottedParts(code, i + n)
    ELSE 0

HasTextAt(code, i, text) ==
    /\ i + Len(text) - 1 <= Len(code)
    /\ SubSeq(code, i, i + Len(text) - 1) = text

\* The number of characters the alternative matches at position i, 0
\* when it does not match there.
MatchLen(pat, code, i) ==
    CASE pat.class = "keyword" ->
             IF /\ HasTextAt(code, i, pat.text)
                /\ \/ i + Len(pat.text) > Len(code)
                   \/ ~IsWordChar(code[i + Len(pat.text)])
             THEN Len(pat.text) ELSE 0
      [] pat.class = "identifier" ->
             IF IsNameStart(code[i])
             THEN LET n == RunOfWord(code, i)
                  IN  n + RunOfDottedParts(code, i + n)
             ELSE 0
      [] pat.class = "digits" -> RunOfDigits(code, i)
      [] pat.class = "float" ->
             LET n == RunOfDigits(code, i)
             IN  IF n > 0 /\ i + n <= Len(code) /\ code[i + n] = "."
                 THEN n + 1 + RunOfDigits(code, i + n + 1)
                 ELSE 0
      [] pat.class = "blanks" -> RunOfBlanks(code, i)
      [] OTHER -> IF HasTextAt(code, i, pat.text) THEN Len(pat.text) ELSE 0

\* The alternation takes the first alternative that matches, in the
\* order of token_dict; 0 when none matches at i.
FirstMatch(code, i) ==
    IF \E k \in 1..Len(token_dict) : MatchLen(token_dict[k], code, i) > 0
    THEN CHOOSE k \in 1..Len(token_dict) :
             /\ MatchLen(token_dict[k], code, i) > 0
             /\ \A j \in 1..(k - 1) : MatchLen(token_dict[j], code, i) = 0
    ELSE 0

\* str(int(value)): the digits without leading zeros
StrOfInt(value) == DecDigits(DigitsValue(value))

RECURSIVE DropTrailingZeros(_)
DropTrailingZeros(s) ==
    IF s # <<>> /\ s[Len(s)] = "0"
    THEN DropTrailingZeros(SubSeq(s, 1, Len(s) - 1))
    ELSE s

\* str(float(value)) for digits "." digits
StrOfFloat(value) ==
    LET n == RunOfDigits(value, 1)
        frac == DropTrailingZeros(SubSeq(value, n + 2, Len(value)))
    IN  StrOfInt(SubSeq(value, 1, n)) \o <<".">>
            \o (IF frac = <<>> THEN <<"0">> ELSE frac)

\* The value the lexer yields for a token, as str() prints it.
TokenValue(kind, value) ==
    IF kind \in {"NUM_INT", "NUM_FLOAT"}
    THEN IF \E j \in 1..Len(value) : value[j] = "."
         THEN StrOfFloat(value) ELSE StrOfInt(value)
    ELSE value

Token(kind, value) == [kind |-> kind, value |-> value]

\* list(lexer(code)): re.finditer scans from the left, skips a character
\* no alternative matches, and the lexer drops blanks and line breaks.
RECURSIVE LexFrom(_, _)
LexFrom(code, i) ==
    IF i > Len(code) THEN <<>>
    ELSE LET k == FirstMatch(code, i)
         IN  IF k = 0 THEN LexFrom(code, i + 1)
             ELSE LET n == MatchLen(token_dict[k], code, i)
                      kind == token_dict[k].kind
                      value == SubSeq(code, i, i + n - 1)
                  IN  IF kind \in {"WHITESPACE", "NEWLINE"}
                      THEN LexFrom(code, i + n)
                      ELSE <<Token(kind, TokenValue(kind, value))>>
                               \o LexFrom(code, i + n)

lexer(code) == LexFrom(code, 1)

\* "    " * level (the empty text for a level below 1)
add_indentation(level) == [k \in 1..(4 * level) |-> " "]

\* One pattern element against one character: "." is any character but a
\* line break, any other element is the character itself.
ElemMatches(e, c) == IF e = "." THEN c # "\n" ELSE e = c

\* The pattern of a rule: a leading "^" anchors it to the start of the
\* text, the rest are its elements.
Anchored(subs) == subs # <<>> /\ subs[1] = "^"

Elements(subs) == IF Anchored(subs) THEN Tail(subs) ELSE subs

ElementsMatchAt(elems, text, i) ==
    /\ i + Len(elems) - 1 <= Len(text)
    /\ \A j \in 1..Len(elems) : ElemMatches(elems[j], text[i + j - 1])

\* re.sub(subs, repl, text): every match, from the left, without
\* overlap, is replaced.
RECURSIVE ReSubFrom(_, _, _, _)
ReSubFrom(subs, repl, text, i) ==
    IF i > Len(text) THEN <<>>
    ELSE IF /\ ElementsMatchAt(Elements(subs), text, i)
            /\ (Anchored(subs) => i = 1)
         THEN repl \o ReSubFrom(subs, repl, text, i + Len(Elements(subs)))
         ELSE <<text[i]>> \o ReSubFrom(subs, repl, text, i + 1)

re_sub(subs, repl, text) == ReSubFrom(subs, repl, text, 1)

\* text.replace(subs, repl): every occurrence of the characters of subs,
\* from the left, without overlap.
RECURSIVE ReplaceFrom(_, _, _, _)
ReplaceFrom(subs, repl, text, i) ==
    IF i > Len(text) THEN <<>>
    ELSE IF /\ i + Len(subs) - 1 <= Len(text)
            /\ SubSeq(text, i, i + Len(subs) - 1) = subs
         THEN repl \o ReplaceFrom(subs, repl, text, i + Len(subs))
         ELSE <<text[i]>> \o ReplaceFrom(subs, repl, text, i + 1)

str_replace(subs, repl, text) == ReplaceFrom(subs, repl, text, 1)

\* for subs in substitutions: token_value = re.sub(subs, ..., token_value)
RECURSIVE SubstituteRegex(_, _)
SubstituteRegex(rules, token_value) ==
    IF rules = <<>> THEN token_value
    ELSE SubstituteRegex(Tail(rules),
                         re_sub(Head(rules).subs, Head(rules).repl,
                                token_value))

\* for subs in substitutions: token_value = token_value.replace(subs, ...)
RECURSIVE SubstituteLiteral(_, _)
SubstituteLiteral(rules, token_value) ==
    IF rules = <<>> THEN token_value
    ELSE SubstituteLiteral(Tail(rules),
                           str_replace(Head(rules).subs, Head(rules).repl,
                                       token_value))

\* (i + 1) < len(tokens) and tokens[i + 1][0] != "RBRACE", for the i-th
\* token counted from 1
NextIsNoRBrace(toks, i) == i < Len(toks) /\ toks[i + 1].kind # "RBRACE"

IsWhitespace(c) == c \in {" ", "\t", "\n"}

RECURSIVE rstrip(_)
rstrip(s) ==
    IF s # <<>> /\ IsWhitespace(s[Len(s)])
    THEN rstrip(SubSeq(s, 1, Len(s) - 1)) ELSE s

RECURSIVE lstrip(_)
lstrip(s) == IF s # <<>> /\ IsWhitespace(Head(s)) THEN lstrip(Tail(s)) ELSE s

strip(s) == rstrip(lstrip(s))

\* What one pass of an emitter's loop leaves: the code it kept, the text
\* it added to it, the indentation level, the tokens it consumed, whether
\* it raised.
Pass(kept, added, level, used, raised) ==
    [kept |-> kept, added |-> added, indent_level |-> level, used |-> used,
     raised |-> raised]

\* The loop body shared by generate_cpp_code and generate_typescript_code,
\* which differ in the keywords they print with a trailing space.
BraceLoopBody(keywords, toks, i, code, level, rules) ==
    LET token_type == toks[i].kind
        token_value == toks[i].value
    IN  CASE token_type = "LBRACE" ->
                 Pass(code, <<" ", "{", "\n">> \o add_indentation(level + 1),
                      level + 1, 1, FALSE)
          [] token_type = "RBRACE" ->
                 LET lower == IF level > 0 THEN level - 1 ELSE level
                 IN  Pass(code, add_indentation(lower) \o <<"}", "\n">>
                               \o (IF NextIsNoRBrace(toks, i)
                                   THEN add_indentation(lower) ELSE <<>>),
                          lower, 1, FALSE)
          [] token_type = "SEMI" ->
                 Pass(code, <<";", "\n">>
                           \o (IF NextIsNoRBrace(toks, i)
                               THEN add_indentation(level) ELSE <<>>),
                      level, 1, FALSE)
          [] token_type \in keywords ->
                 Pass(code, token_value \o <<" ">>, level, 1, FALSE)
          [] OTHER ->
                 Pass(code, SubstituteRegex(rules, token_value),
                      level, 1, FALSE)

\* generate_cpp_code: one pass of the loop
CppLoopBody(toks, i, code, level, rules) ==
    BraceLoopBody({"WHILE", "INT", "FLOAT", "RETURN"}, toks, i, code, level,
                  rules)

\* generate_typescript_code: one pass of the loop
TypescriptLoopBody(toks, i, code, level, rules) ==
    BraceLoopBody({"WHILE", "RETURN"}, toks, i, code, level, rules)

\* generate_python_code: one pass of the loop.  tokens[i + 1] raises
\* IndexError when the identifier is the last token.
PythonLoopBody(toks, i, code, level, rules) ==
    LET token_type == toks[i].kind
        token_value == toks[i].value
    IN  CASE token_type \in {"INT", "FLOAT"} -> Pass(code, <<>>, level, 1, FALSE)
          [] token_type = "SEMI" ->
                 Pass(code, <<"\n">> \o add_indentation(level), level, 1,
                      FALSE)
          [] token_type = "LBRACE" ->
                 Pass(code, <<":", "\n">> \o add_indentation(level + 1),
                      level + 1, 1, FALSE)
          [] token_type = "RBRACE" ->
                 Pass(rstrip(code), <<"\n">> \o add_indentation(level - 1),
                      level - 1, 1, FALSE)
          [] token_type = "INC_OP" ->
                 Pass(code, <<" ", "+", "=", " ", "1">>, level, 1, FALSE)
          [] token_type = "DEC_OP" ->
                 Pass(code, <<" ", "-", "=", " ", "1">>, level, 1, FALSE)
          [] token_type = "ID" /\ i = Len(toks) ->
                 Pass(code, <<>>, level, 0, TRUE)
          [] token_type = "ID" /\ i < Len(toks)
                 /\ toks[i + 1].kind = "ASSIGN" ->
                 IF i > 1 /\ toks[i - 1].kind \in {"INT", "FLOAT"}
                 THEN Pass(code, token_value \o <<" ", "=", " ">>, level, 2,
                           FALSE)
                 ELSE Pass(code, token_value, level, 1, FALSE)
          [] token_type = "WHILE" ->
                 Pass(code, <<"w", "h", "i", "l", "e", " ">>, level, 1, FALSE)
          [] token_type = "RETURN" ->
                 Pass(code, <<"r", "e", "t", "u", "r", "n", " ">>, level, 1, FALSE)
          [] OTHER ->
                 Pass(code, SubstituteLiteral(rules, token_value),
                      level, 1, FALSE)

\* tokens = list(pseudocode_handler.lexer(code))
Lex ==
    /\ ps_pc = "lex"
    /\ tokens' = lexer(pseudo_code)
    /\ ps_pc' = IF ps_target = "none" THEN "lexed" ELSE "emit"
    /\ UNCHANGED <<pseudo_code, ps_target, substitutions, tok_i, code_out,
                   indent_level, emit_log, ps_result>>
    /\ UNCHANGED notPseudoVars

\* generate_cpp_code: one pass of the while loop
CppStep ==
    /\ ps_pc = "emit" /\ ps_target = "cpp"
    /\ tok_i <= Len(tokens)
    /\ LET pass == CppLoopBody(tokens, tok_i, code_out, indent_level, substitutions)
       IN  /\ code_out' = pass.kept \o pass.added
           /\ indent_level' = pass.indent_level
           /\ tok_i' = tok_i + pass.used
           /\ emit_log' = Append(emit_log,
                                [first |-> tok_i, used |-> pass.used,
                                 added |-> pass.added])
           /\ ps_pc' = IF pass.raised THEN "raised" ELSE "emit"
    /\ UNCHANGED <<pseudo_code, ps_target, substitutions, tokens, ps_result>>
    /\ UNCHANGED notPseudoVars

\* generate_cpp_code: return code
CppReturn ==
    /\ ps_pc = "emit" /\ ps_target = "cpp"
    /\ tok_i > Len(tokens)
    /\ ps_result' = code_out
    /\ ps_pc' = "returned"
    /\ UNCHANGED <<pseudo_code, ps_target, substitutions, tokens, tok_i,
                   code_out, indent_level, emit_log>>
    /\ UNCHANGED notPseudoVars

\* generate_python_code: one pass of the while loop
PythonStep ==
    /\ ps_pc = "emit" /\ ps_target = "python"
    /\ tok_i <= Len(tokens)
    /\ LET pass == PythonLoopBody(tokens, tok_i, code_out, indent_level, substitutions)
       IN  /\ code_out' = pass.kept \o pass.added
           /\ indent_level' = pass.indent_level
           /\ tok_i' = tok_i + pass.used
           /\ emit_log' = Append(emit_log,
                                [first |-> tok_i, used |-> pass.used,
                                 added |-> pass.added])
           /\ ps_pc' = IF pass.raised THEN "raised" ELSE "emit"
    /\ UNCHANGED <<pseudo_code, ps_target, substitutions, tokens, ps_result>>
    /\ UNCHANGED notPseudoVars

\* generate_python_code: return code.strip()
PythonReturn ==
    /\ ps_pc = "emit" /\ ps_target = "python"
    /\ tok_i > Len(tokens)
    /\ ps_result' = strip(code_out)
    /\ ps_pc' = "returned"
    /\ UNCHANGED <<pseudo_code, ps_target, substitutions, tokens, tok_i,
                   code_out, indent_level, emit_log>>
    /\ UNCHANGED notPseudoVars

\* generate_typescript_code: one pass of the while loop
TypescriptStep ==
    /\ ps_pc = "emit" /\ ps_target = "typescript"
    /\ tok_i <= Len(tokens)
    /\ LET pass == TypescriptLoopBody(tokens, tok_i, code_out, indent_level, substitutions)
       IN  /\ code_out' = pass.kept \o pass.added
           /\ indent_level' = pass.indent_level
           /\ tok_i' = tok_i + pass.used
           /\ emit_log' = Append(emit_log,
                                [first |-> tok_i, used |-> pass.used,
                                 added |-> pass.added])
           /\ ps_pc' = IF pass.raised THEN "raised" ELSE "emit"
    /\ UNCHANGED <<pseudo_code, ps_target, substitutions, tokens, ps_result>>
    /\ UNCHANGED notPseudoVars

\* generate_typescript_code: return code
TypescriptReturn ==
    /\ ps_pc = "emit" /\ ps_target = "typescript"
    /\ tok_i > Len(tokens)
    /\ ps_result' = code_out
    /\ ps_pc' = "returned"
    /\ UNCHANGED <<pseudo_code, ps_target, substitutions, tokens, tok_i,
                   code_out, indent_level, emit_log>>
    /\ UNCHANGED notPseudoVars

LexNext == Lex

EmitNext ==
    \/ Lex
    \/ CppStep
    \/ CppReturn
    \/ PythonStep
    \/ PythonReturn
    \/ TypescriptStep
    \/ TypescriptReturn

\* Joins the words of a program.
RECURSIVE Concat(_)
Concat(words) == IF words = <<>> THEN <<>> ELSE Head(words) \o Concat(Tail(words))

ProgramsOf(words) ==
    {Concat(w) : w \in UNION {[1..n -> words] : n \in 0..MaxWords}}

\* Literals and names: digits, the dot, a letter and a blank.
LiteralWords == {<<"3">>, <<"0">>, <<"5">>, <<".">>, <<"a">>, <<" ">>}

\* The documented round-trip program.
RoundTripProgram == <<"i", "n", "t", " ", "N", "=", "3", ";", " ", "w", "h", "i", "l", "e", "(", "N", ">", "0", ")", "{", "N", "-", "-", ";", "}">>

\* Statements and blocks.
BlockWords ==
    { <<"{">>, <<"}">>, <<";">>, <<"N">>, <<"-", "-">>, <<"+", "+">>,
      <<"=">>, <<"i", "n", "t", " ">> }

\* Names that are, contain or resemble the output record and "next".
NameWords ==
    { <<"o", "u", "t", ".", "v">>, <<"o", "u", "t", "e", "r">>, <<"n", "e", "x", "t">>, <<"n", "e", "x", "t", "I", "d", "x">>, <<"N">>, <<"=">>, <<";">> }

Rule(subs, repl) == [subs |-> subs, repl |-> repl]

\* loop_end_lines of gen_custom_extraction_code, joined, for the default
\* time field and resolution.
LoopEndLines(us) ==
    <<"i", "f", " ", "(", "+", "+", "p", "O", "u", "t", " ", ">", "=", " ", "p", "S", "t", "r", "u", "c", "t", " ", "+", " ", "m", "a", "x", "R", "e", "c", "C", "o", "u", "n", "t", ")", " ", "b", "r", "e", "a", "k", ";">>
    \o <<"\n", " ", " ", " ", " ", " ", " ", " ", " ">>
    \o <<"t", "i", "m", "e", "s", "t", "a", "m", "p", "U", "s", " ", "+", "=", " ">> \o DecDigits(us) \o <<";">>
    \o <<"\n", " ", " ", " ", " ", " ", " ", " ", " ">>
    \o <<"p", "O", "u", "t", "-", ">", "t", "i", "m", "e", "M", "s", " ", "=", " ", "t", "i", "m", "e", "s", "t", "a", "m", "p", "U", "s", " ", "/", " ", "1", "0", "0", "0", ";">>

\* The substitutions gen_custom_extraction_code passes, in dict order.
CustomSubstitutions(us) ==
    << Rule(<<"^", "o", "u", "t", ".">>, <<"p", "O", "u", "t", "-", ">">>),
       Rule(<<"n", "e", "x", "t">>, LoopEndLines(us)) >>

\* Substitutions a caller supplies: none, those of the custom path, and a
\* pair whose second rule rewrites what the first produced.
RuleLists ==
    { <<>>,
      CustomSubstitutions(0),
      << Rule(<<"N">>, <<"o", "u", "t", ".", "N">>),
         Rule(<<"^", "o", "u", "t", ".">>, <<"p", "O", "u", "t", "-", ">">>) >> }

PseudoStart ==
    /\ tokens = <<>>
    /\ ps_pc = "lex"
    /\ tok_i = 1
    /\ code_out = <<>>
    /\ indent_level = 0
    /\ emit_log = <<>>
    /\ ps_result = <<>>

\* The lexer alone, on literals.
LexInit ==
    /\ pseudo_code \in ProgramsOf(LiteralWords) \cup {<<"a", ".", "a", ".", "a">>}
    /\ ps_target = "none"
    /\ substitutions = <<>>
    /\ PseudoStart

\* Each emitter on statements and blocks, without substitutions.
EmitInit ==
    /\ pseudo_code \in ProgramsOf(BlockWords) \cup {RoundTripProgram}
    /\ ps_target \in {"cpp", "python", "typescript"}
    /\ substitutions = <<>>
    /\ PseudoStart

\* Each emitter on names, with substitutions.
SubstInit ==
    /\ pseudo_code \in ProgramsOf(NameWords)
    /\ ps_target \in {"cpp", "python", "typescript"}
    /\ substitutions \in RuleLists
    /\ PseudoStart

\* The pseudocode handler is not in use.
PseudoIdle ==
    /\ pseudo_code = <<>>
    /\ ps_target = "none"
    /\ substitutions = <<>>
    /\ tokens = <<>>
    /\ ps_pc = "off"
    /\ tok_i = 1
    /\ code_out = <<>>
    /\ indent_level = 0
    /\ emit_log = <<>>
    /\ ps_result = <<>>

(***************************************************************************)
(* Claims about the generation run.                                        *)
(***************************************************************************)
\* Device type i has an invalid polling-config entry.
InvalidConfig(i) == poll_data_bytes(devTypes[i]).raised

\* The record length the table declares for device type i (resp.b).
DeclaredLength(i) == IF devTypes[i].hasB THEN devTypes[i].b ELSE 0

\* Device type i's computed record length differs from its declared one.
LengthMismatch(i) ==
    /\ ~poll_data_bytes(devTypes[i]).raised
    /\ poll_data_bytes(devTypes[i]).len # DeclaredLength(i)

\* The diagnostic names device type i.
NamesDevType(i) ==
    /\ "dev_type_key" \in DOMAIN diagnostic
    /\ diagnostic.dev_type_key = DevTypeKeys[i]

\* The diagnostic carries device type i's declared and computed lengths.
NamesBothLengths(i) ==
    /\ "JSON" \in DOMAIN diagnostic
    /\ "Calculated" \in DOMAIN diagnostic
    /\ diagnostic.JSON = DeclaredLength(i)
    /\ diagnostic.Calculated = poll_data_bytes(devTypes[i]).len

\* C3: a table with a record-length mismatch makes the run abort with a
\* non-zero status and a diagnostic naming that device type and both
\* lengths; a table with an invalid polling-config entry makes it abort
\* with a non-zero status and a diagnostic naming the device type.
C3_AbortNamesDeviceType ==
    gen_pc = "exit" =>
        /\ (\E i \in 1..Len(devTypes) : LengthMismatch(i) \/ InvalidConfig(i))
               => exit_status # 0
        /\ exit_status # 0 =>
               \E i \in 1..Len(devTypes) :
                   \/ LengthMismatch(i) /\ NamesDevType(i) /\ NamesBothLengths(i)
                   \/ InvalidConfig(i) /\ NamesDevType(i)

\* C4: when the run aborts on a generation-time error, nothing has been
\* written to the output artifact.
C4_NoPartialOutput ==
    (gen_pc = "exit" /\ exit_status # 0)
        => (~header_created /\ header_file = <<>>)

LayoutsWritten ==
    SelectSeq(header_file, LAMBDA w : w.kind = "struct_def")

\* The table records of the header that carry a decode routine, in order.
RoutinesWritten ==
    SelectSeq(header_file, LAMBDA w : w.kind = "record" /\ w.decode.lambda)

\* C21: the generator emits one record layout per device type that gets a
\* decode routine, paired 1:1 with it in table order, even when another
\* device type of the table has no name.
C21_LayoutPerDecodeRoutine ==
    (gen_pc = "exit" /\ exit_status = 0) =>
        /\ Len(LayoutsWritten) = Len(RoutinesWritten)
        /\ \A i \in 1..Len(RoutinesWritten) :
               LayoutsWritten[i].text = RoutinesWritten[i].decode.struct_name

(***************************************************************************)
(* Claims about the emitted decode routine.                                *)
(***************************************************************************)
\* Every attribute read lies within the declared record.
FitsInRecord(meta) == SchemaExtent(meta.a) <= meta.b

\* C6: for a schema that fits in one record the attribute-driven routine
\* returns min(floor(L / S), M): 0 when L < S, k when L = k * S and k < M,
\* M when L >= (M + 1) * S; it never returns an error value.
C6_ReturnsWholeRecordCount ==
    (dec_pc = "returned" /\ EmitsLoop(poll_resp_meta)
         /\ FitsInRecord(poll_resp_meta)) =>
        LET S == RecLenIncTimestamp(poll_resp_meta, dec_options)
        IN  /\ retVal = Min(bufLen \div S, maxRecCount)
            /\ retVal >= 0
            /\ bufLen < S => retVal = 0
            /\ \A k \in 0..MaxBufRecs :
                   (bufLen = k * S /\ k < maxRecCount) => retVal = k
            /\ bufLen >= (maxRecCount + 1) * S => retVal = maxRecCount

\* C6 witness: a buffer of more than maxRecCount = 2 records of a schema
\* that fits has been decoded.
C6_Witness ==
    /\ dec_pc = "returned"
    /\ EmitsLoop(poll_resp_meta) /\ FitsInRecord(poll_resp_meta)
    /\ maxRecCount = 2
    /\ bufLen >= 3 * RecLenIncTimestamp(poll_resp_meta, dec_options)
    /\ retVal = 2

\* C7: the attribute-driven loop never reads a byte at or beyond the
\* buffer end (offset bufLen), whatever the buffer length, the maximum
\* record count and the schema.
C7_NoReadPastBufferEnd == \A x \in bytesRead : x >= 0 /\ x < bufLen

\* C7 witness: in a schema reaching past the declared record, the bounds
\* check of an attribute placed with "at" has stopped the loop after
\* bytes of the record were read.
C7_Witness ==
    /\ dec_pc = "return"
    /\ attrIdx \in 1..Len(poll_resp_meta.a)
    /\ poll_resp_meta.a[attrIdx].at # -1
    /\ ~FitsInRecord(poll_resp_meta)
    /\ bytesRead # {}
    /\ pAttrStart + poll_resp_meta.a[attrIdx].at < bufLen
    /\ AttrOverruns(pAttrStart + poll_resp_meta.a[attrIdx].at,
                    poll_resp_meta.a[attrIdx], bufLen)

\* C8: the routine never writes more than structOutSize bytes to the
\* output buffer, and never writes a record slot with index >= maxRecCount.
C8_WritesWithinOutputCapacity ==
    /\ Cardinality(slotsWritten) * StructSize(poll_resp_meta, dec_options)
           <= structOutSize
    /\ \A slot \in slotsWritten : slot < maxRecCount

\* The records up to i whose raw value is below the previous record's
\* raw value (below 0, the initial previous value, for the first).
WrapCount(i) ==
    Cardinality({j \in 1..i :
                     rawHist[j] < (IF j = 1 THEN 0 ELSE rawHist[j - 1])})

\* C9: on one decode state starting from (0, 0), the corrected microsecond
\* value of record i is raw_i * r + W_i * R * r; for the raw sequence
\* [5, 9, 2, 6] it is [5r, 9r, 2r + R*r, 6r + R*r], strictly increasing.
C9_CorrectedMicroseconds ==
    LET r == dec_options.POLL_RESULT_RESOLUTION_US
        R == POLL_RESULT_WRAP_VALUE(dec_options)
    IN  /\ Len(usHist) = Len(rawHist)
        /\ \A i \in 1..Len(usHist) :
               usHist[i] = rawHist[i] * r + WrapCount(i) * R * r
        /\ (Len(rawHist) >= 4 /\ SubSeq(rawHist, 1, 4) = <<5, 9, 2, 6>>) =>
               /\ SubSeq(usHist, 1, 4)
                      = <<5 * r, 9 * r, 2 * r + R * r, 6 * r + R * r>>
               /\ \A i \in 1..3 : usHist[i] < usHist[i + 1]

\* C9 witness: the raw sequence [5, 9, 2, 6] has been decoded.
C9_Witness ==
    /\ rawHist = <<5, 9, 2, 6>>
    /\ Len(usHist) = 4
    /\ decodeState.reportTimestampOffsetUs
           = POLL_RESULT_WRAP_VALUE(dec_options)
                 * dec_options.POLL_RESULT_RESOLUTION_US

\* C10: the timestamps stored in the output records never decrease from
\* one record to the next, within a call and across calls.
C10_StoredTimestampsNonDecreasing ==
    \A i \in 1..(Len(outHist) - 1) : outHist[i] <= outHist[i + 1]

\* C22: each attribute is read at the attribute-region start plus "at"
\* when "at" is given, and otherwise where the attribute declared
\* immediately before it ended (at the region start for the first one),
\* also when that attribute was itself positioned with "at".
C22_ReadPositionFollowsPriorAttribute ==
    \A k \in 1..Len(attrReads) :
        LET el == poll_resp_meta.a[attrReads[k].idx]
        IN  attrReads[k].pos =
                IF el.at # -1 THEN pAttrStart + el.at
                ELSE IF k = 1 THEN pAttrStart
                ELSE attrReads[k - 1].end

(***************************************************************************)
(* Claims about the custom-pseudocode path.                                *)
(***************************************************************************)
\* C27: on one decode state starting from (0, 0), over any calls and
\* records, the accumulated offset is one unit (counter range times
\* resolution) per record read whose scaled raw timestamp was below the
\* previous one kept, hence a non-negative multiple of the unit that never
\* decreases; the previous value kept is the scaled raw timestamp of the
\* record read last, never a corrected or a synthesized one.
C27_DecodeStateTracksRawTimestamps ==
    LET r == dec_options.POLL_RESULT_RESOLUTION_US
        unit == POLL_RESULT_WRAP_VALUE(dec_options) * r
        n == Len(rawHist)
    IN  dec_pc # "off" =>
            /\ decodeState.reportTimestampOffsetUs = WrapCount(n) * unit
            /\ decodeState.reportTimestampOffsetUs >= 0
            /\ decodeState.reportTimestampOffsetUs % unit = 0
            /\ decodeState.lastReportTimestampUs =
                   IF n = 0 THEN 0 ELSE rawHist[n] * r

\* C27 witness: after a wrap, a synthesized record has advanced the
\* custom routine's own time beyond the corrected time of the poll record.
C27_Witness ==
    /\ dec_pc = "c_inner"
    /\ synthIdx >= 1
    /\ record_time_increment_us > 0
    /\ Len(rawHist) >= 2
    /\ decodeState.reportTimestampOffsetUs =
           POLL_RESULT_WRAP_VALUE(dec_options)
               * dec_options.POLL_RESULT_RESOLUTION_US
    /\ custTimestampUs > decodeState.lastReportTimestampUs
                             + decodeState.reportTimestampOffsetUs

\* The decode state after the first k timestamps the routine has taken.
DecodeStateAfter(k) ==
    LET r == dec_options.POLL_RESULT_RESOLUTION_US
    IN  [lastReportTimestampUs |-> IF k = 0 THEN 0 ELSE rawHist[k] * r,
         reportTimestampOffsetUs |->
             WrapCount(k) * POLL_RESULT_WRAP_VALUE(dec_options) * r]

\* Timestamps the current call has taken: one per output slot it touched.
TimestampsTakenByCall == Cardinality(slotsWritten)

\* C28: the attribute-driven routine changes the decode state only for the
\* records it counts in its return value: when it has returned, the decode
\* state is the one reached after the last record it decoded in full, an
\* abandoned record having left no trace in it.
C28_DecodeStateOnlyForCountedRecords ==
    dec_pc = "returned" =>
        decodeState =
            DecodeStateAfter(Len(rawHist) - TimestampsTakenByCall + retVal)

\* C11: on the custom path the timestamps of the records handed to the
\* caller never decrease on one decode state, whatever the per-record
\* increment and the number of synthetic records per batch; the first
\* record of a batch is never earlier than the last record before it.
C11_CustomTimestampsNonDecreasing ==
    (dec_pc \in {"c_idle", "c_outer", "c_timestamp", "c_inner", "c_complete",
                 "c_return", "c_returned"})
        => \A i \in 1..(Len(outHist) - 1) : outHist[i] <= outHist[i + 1]

(***************************************************************************)
(* Claims about the block emitted for one attribute.                       *)
(***************************************************************************)
\* The value of __<name> before statement i of the block ran.
VarBefore(i) == IF i = 1 THEN 0 ELSE attr_hist[i - 1][1]

\* The value of pOut-><name> before statement i of the block ran.
OutBefore(i) == IF i = 1 THEN 0 ELSE attr_hist[i - 1][2]

\* The statements of the block that have run.
Ran == 1..Len(attr_hist)

\* The width w of a mask covering the low w bits.
MaskWidth(m) == CHOOSE w \in 1..16 : 2 ^ w - 1 = m

\* C12: for a signed attribute with an AND mask m of the low w bits, a
\* value whose bit w-1 is set leaves the mask stage negative and equal to
\* (raw & m) - 2^w, the w-bit two's-complement reading of the masked value.
C12_MaskedSignExtension ==
    \A i \in Ran :
        (is_attr_type_signed(attr_el.t) /\ attr_el.m # -1
             /\ attr_block[i].op \in {"signext", "and"}) =>
            LET w == MaskWidth(attr_el.m)
                entering == VarBefore(i)
                leaving == attr_hist[i][1]
            IN  BitAnd(entering, 2 ^ (w - 1)) # 0 =>
                    /\ leaving = BitAnd(entering, attr_el.m) - 2 ^ w
                    /\ leaving < 0
                    /\ attr_el.x = -1 =>
                           leaving = BitAnd(attr_raw, attr_el.m) - 2 ^ w

\* C12 witness: the mask stage has run for a signed byte with mask 0x07 on
\* the raw value 0x3C (bit 2 set): it left 4 - 8 = -4.
C12_Witness ==
    /\ attr_el.t = "b" /\ attr_el.m = 7 /\ attr_el.x = -1
    /\ attr_raw = 60
    /\ Len(attr_hist) = 2
    /\ attr_block[2].op = "signext"
    /\ attr_var = -4

\* C13: the sign-bit stage turns a value with the configured sign bit set
\* into C - value when a subtract-from constant C is configured, into
\* value - 2 * (sign-bit value) when none is; a value with the bit clear
\* is left unchanged.
C13_ExplicitSignBit ==
    \A i \in Ran :
        attr_block[i].op \in {"signbit_from", "signbit_sub"} =>
            LET entering == VarBefore(i)
                leaving == attr_hist[i][1]
                bit == 2 ^ attr_el.sb
            IN  IF BitAnd(entering, bit) = 0 THEN leaving = entering
                ELSE IF attr_el.ss # -1 THEN leaving = attr_el.ss - entering
                ELSE leaving = entering - 2 * bit

\* C13 witness: the sign-bit stage has run with a subtract-from constant
\* on a value with the sign bit set.
C13_Witness ==
    /\ attr_el.sb = 2 /\ attr_el.ss = 8 /\ attr_el.m = -1 /\ attr_el.x = -1
    /\ attr_el.t = "B"
    /\ attr_raw = 6
    /\ Len(attr_hist) = 2
    /\ attr_block[2].op = "signbit_from"
    /\ attr_var = 2

\* C14: the sign-extension code of the AND mask and the explicit sign-bit
\* code are never both emitted for one attribute.
C14_OneSignStrategy ==
    ~ \E i, j \in 1..Len(attr_block) :
          /\ attr_block[i].op = "signext"
          /\ attr_block[j].op \in {"signbit_from", "signbit_sub"}

\* The place of an operation in the documented order.
StageRank(op) ==
    CASE op = "extract" -> 0
      [] op = "xor" -> 1
      [] op \in {"signext", "and"} -> 2
      [] op \in {"signbit_from", "signbit_sub"} -> 3
      [] op \in {"shl", "shr"} -> 4
      [] op = "store" -> 5
      [] op = "div" -> 6
      [] op = "add" -> 7

\* C15: the emitted operations come in the order XOR, AND mask / sign
\* extension, sign bit, shift (left for a positive amount, right for a
\* negative one), store, divide, add, for every subset of the transform
\* fields; divide and add work on the stored (truncated) field and leave
\* the intermediate variable alone.
C15_FixedTransformOrder ==
    /\ \A i, j \in 1..Len(attr_block) :
           i < j => StageRank(attr_block[i].op) < StageRank(attr_block[j].op)
    /\ \A i \in 1..Len(attr_block) :
           /\ attr_block[i].op = "shl" => attr_el.s = attr_block[i].k
           /\ attr_block[i].op = "shr" => attr_el.s = 0 - attr_block[i].k
    /\ attr_pc > 0 =>
           /\ (attr_el.x # -1) <=> \E i \in 1..Len(attr_block) :
                                      attr_block[i].op = "xor"
           /\ (attr_el.s # 0) <=> \E i \in 1..Len(attr_block) :
                                     attr_block[i].op \in {"shl", "shr"}
           /\ \E i \in 1..Len(attr_block) : attr_block[i].op = "store"
    /\ \A i \in Ran :
           /\ attr_block[i].op = "store" =>
                  attr_hist[i][2] = StoreTo(VarBefore(i), FieldCType(attr_el))
           /\ attr_block[i].op = "div" =>
                  /\ attr_hist[i][1] = VarBefore(i)
                  /\ attr_hist[i][2] =
                         StoreTo(TruncDiv(OutBefore(i), attr_el.d),
                                 FieldCType(attr_el))
           /\ attr_block[i].op = "add" =>
                  /\ attr_hist[i][1] = VarBefore(i)
                  /\ attr_hist[i][2] =
                         StoreTo(OutBefore(i) + attr_el.a, FieldCType(attr_el))

\* C15 witness: a block with every transform has run to its end on a
\* value that the shift changes: all eight statements, in order.
C15_Witness ==
    /\ Len(attr_block) = 8
    /\ Len(attr_hist) = 8
    /\ attr_el.s = 1
    /\ attr_el.t = ">H"
    /\ attr_raw = 4369
    /\ attr_hist[5][1] # attr_hist[4][1]
    /\ attr_out # attr_hist[6][2]

\* C26: for a signed attribute with an AND mask, the value leaving the
\* mask stage depends only on the masked bits of the value entering it:
\* it is the sign-extended masked value when the mask's top bit is set and
\* the masked value itself when that bit is clear.
C26_BitsOutsideMaskIgnored ==
    \A i \in Ran :
        (is_attr_type_signed(attr_el.t) /\ attr_el.m # -1
             /\ attr_block[i].op \in {"signext", "and"}) =>
            LET w == MaskWidth(attr_el.m)
                entering == VarBefore(i)
                leaving == attr_hist[i][1]
            IN  leaving =
                    IF BitAnd(entering, 2 ^ (w - 1)) # 0
                    THEN BitAnd(entering, attr_el.m) - 2 ^ w
                    ELSE BitAnd(entering, attr_el.m)

(***************************************************************************)
(* Claims about identifier sanitization and the type mapper.               *)
(***************************************************************************)
\* C16: sanitizing an already sanitized name yields the same name, and a
\* name whose first character is a digit is given a leading underscore.
C16_SanitizeIdempotent ==
    /\ Len(name_results) = 2 => name_results[2] = name_results[1]
    /\ (Len(name_results) >= 1 /\ attr_name # <<>> /\ IsDigit(attr_name[1]))
           => /\ name_results[1] # <<>>
              /\ name_results[1][1] = "_"

\* C16 witness: the name "1 -" has been sanitized twice, to "_1_".
C16_Witness ==
    /\ attr_name = <<"1", " ", "-">>
    /\ name_results = <<<<"_", "1", "_">>, <<"_", "1", "_">>>>

\* The attribute has a name and a type tag the type mapper does not know,
\* and no recognised override.
UnknownTag(el) ==
    /\ el.n # <<>>
    /\ el.t # ""
    /\ el.t \notin PyStructTags
    /\ el.o \notin CLikeTypes

\* C17: for an attribute with an unknown type tag and no recognised
\* override a diagnostic is printed and neither a field line of the record
\* layout nor an extraction block of the decode routine mentions it.
C17_UnknownTagOmitted ==
    (type_pc = "done" /\ UnknownTag(type_el)) =>
        /\ type_printed # <<>>
        /\ struct_lines = <<>>
        /\ extract_blocks = <<>>

\* C18: an attribute with a recognised override tag gets a record-layout
\* field of the type mapped from the override, whatever its compact tag.
C18_OverrideTakesPriority ==
    (type_el.o \in CLikeTypes) =>
        \A i \in 1..Len(struct_lines) :
            struct_lines[i].c_type = CLikeCType(type_el.o)

\* C18 witness: the field of an attribute with the compact tag "B" and the
\* override "float" has been laid out as a float.
C18_Witness ==
    /\ type_pc = "done"
    /\ type_el.t = "B" /\ type_el.o = "float" /\ type_el.n = <<"x">>
    /\ Len(struct_lines) = 1
    /\ struct_lines[1].c_type = "float"

IntegerCTypes ==
    {"int8_t", "uint8_t", "int16_t", "uint16_t", "int32_t", "uint32_t",
     "int64_t", "uint64_t"}

\* C19: in widen mode every integer base type (8 to 64 bits, signed and
\* unsigned) is mapped to a signed type strictly wider than it.
C19_WidenStrictlyWiderSigned ==
    \A i \in 1..Len(extract_blocks) :
        extract_blocks[i].buf_elem_type \in IntegerCTypes =>
            /\ IsSignedCType(extract_blocks[i].intermediate_type)
            /\ SizeOf(extract_blocks[i].intermediate_type)
                   > SizeOf(extract_blocks[i].buf_elem_type)

\* The byte order a type tag names: ">" big-endian, "<" little-endian,
\* "" for the one-byte tags.
TagByteOrder(t) ==
    CASE t \in {">h", ">H", ">i", ">I", ">l", ">L", ">q", ">Q", ">f", ">d"}
             -> "BE"
      [] t \in {"<h", "<H", "<i", "<I", "<l", "<L", "<q", "<Q", "<f", "<d"}
             -> "LE"
      [] OTHER -> ""

\* The byte order an extraction function's name carries.
GetFnByteOrder(fn) ==
    CASE fn \in {"getBEInt16AndInc", "getBEUint16AndInc", "getBEInt32AndInc",
                 "getBEUint32AndInc", "getBEInt64AndInc", "getBEUint64AndInc",
                 "getBEfloat32AndInc", "getBEdouble64AndInc"} -> "BE"
      [] fn \in {"getLEInt16AndInc", "getLEUint16AndInc", "getLEInt32AndInc",
                 "getLEUint32AndInc", "getLEInt64AndInc", "getLEUint64AndInc",
                 "getLEfloat32AndInc", "getLEdouble64AndInc"} -> "LE"
      [] OTHER -> ""

\* C20: for every tag of the type map the extraction function has the
\* width, the signedness and the byte order of the tag and of the mapped
\* scalar type.
C20_ExtractionFnMatchesTag ==
    \A i \in 1..Len(extract_blocks) :
        LET fn == extract_blocks[i].attr_get_and_inc_fn
            c_type == extract_blocks[i].buf_elem_type
        IN  /\ GetFnWidth(fn) = SizeOf(c_type)
            /\ GetFnSigned(fn) = IsSignedCType(c_type)
            /\ GetFnSigned(fn) = is_attr_type_signed(type_el.t)
            /\ GetFnByteOrder(fn) = TagByteOrder(type_el.t)

(***************************************************************************)
(* Claims about the pseudocode lexer and emitters.                         *)
(***************************************************************************)
AllDigits(text) == text # <<>> /\ \A j \in 1..Len(text) : IsDigit(text[j])

\* digits "." digits
FloatForm(text) ==
    \E d \in 2..(Len(text) - 1) :
        /\ text[d] = "."
        /\ AllDigits(SubSeq(text, 1, d - 1))
        /\ AllDigits(SubSeq(text, d + 1, Len(text)))

\* name ("." name)*, each name a letter followed by word characters
RECURSIVE DottedName(_)
DottedName(text) ==
    /\ text # <<>>
    /\ IsNameStart(text[1])
    /\ \A j \in 1..Len(text) : IsWordChar(text[j]) \/ text[j] = "."
    /\ \A j \in 1..Len(text) :
           text[j] = "." => (j < Len(text) /\ IsNameStart(text[j + 1]))

\* C23: a text of the form digits "." digits yields exactly one
\* float-literal token whose value is that number, a run of digits yields
\* one integer-literal token, and a dotted identifier yields one identifier
\* token.
C23_FloatLiteralIsOneToken ==
    ps_pc = "lexed" =>
        /\ FloatForm(pseudo_code) =>
               /\ Len(tokens) = 1
               /\ tokens[1].kind = "NUM_FLOAT"
               /\ tokens[1].value = StrOfFloat(pseudo_code)
        /\ AllDigits(pseudo_code) =>
               /\ Len(tokens) = 1
               /\ tokens[1].kind = "NUM_INT"
               /\ DigitsValue(tokens[1].value) = DigitsValue(pseudo_code)
        /\ (DottedName(pseudo_code)
              /\ ~\E k \in 1..5 : token_dict[k].text = pseudo_code) =>
               /\ Len(tokens) = 1
               /\ tokens[1] = Token("ID", pseudo_code)

\* The braces of the tokens are properly nested.
RECURSIVE NestedFrom(_, _, _)
NestedFrom(toks, k, depth) ==
    IF k > Len(toks) THEN depth = 0
    ELSE IF toks[k].kind = "LBRACE" THEN NestedFrom(toks, k + 1, depth + 1)
    ELSE IF toks[k].kind = "RBRACE"
         THEN depth > 0 /\ NestedFrom(toks, k + 1, depth - 1)
    ELSE NestedFrom(toks, k + 1, depth)

BalancedBraces(toks) == NestedFrom(toks, 1, 0)

\* How often the character occurs in the text.
Occurrences(c, text) == Cardinality({j \in 1..Len(text) : text[j] = c})

\* What the emitter added to the output for the k-th token.
AddedFor(k) == {emit_log[e].added : e \in {x \in 1..Len(emit_log) : emit_log[x].first = k}}

BlockOpening == IF ps_target = "python" THEN ":" ELSE "{"

StatementBreak == IF ps_target = "python" THEN "\n" ELSE ";"

IncDecText(kind) ==
    IF ps_target = "python"
    THEN <<" ", (IF kind = "INC_OP" THEN "+" ELSE "-"), "=", " ", "1">>
    ELSE IF kind = "INC_OP" THEN <<"+", "+">> ELSE <<"-", "-">>

\* C24: for every program with balanced braces, each of the three emitters
\* returns an output with one block opening per "{" token, one statement
\* break per ";" token and one increment or decrement per "++" or "--"
\* token, and its indentation level is back at zero at the end.
C24_RoundTripPreservesStructure ==
    (ps_pc \in {"returned", "raised"} /\ BalancedBraces(tokens)) =>
        /\ ps_pc = "returned"
        /\ indent_level = 0
        /\ \A k \in 1..Len(tokens) :
               /\ tokens[k].kind = "LBRACE" =>
                      \E t \in AddedFor(k) :
                          /\ AddedFor(k) = {t}
                          /\ Occurrences(BlockOpening, t) = 1
               /\ tokens[k].kind = "SEMI" =>
                      \E t \in AddedFor(k) :
                          /\ AddedFor(k) = {t}
                          /\ Occurrences(StatementBreak, t) = 1
               /\ tokens[k].kind \in {"INC_OP", "DEC_OP"} =>
                      AddedFor(k) = {IncDecText(tokens[k].kind)}

\* Tokens that are emitted as they are or lowered, not substituted:
\* braces, the statement terminator, the keywords printed with a trailing
\* space and the type keywords; for Python also "++" and "--".
NotSubstituted(kind) ==
    \/ kind \in {"LBRACE", "RBRACE", "SEMI", "WHILE", "RETURN", "INT", "FLOAT"}
    \/ ps_target = "python" /\ kind \in {"INC_OP", "DEC_OP"}

\* C25: in each target, every token that is not a brace, a statement
\* terminator or a designated keyword is emitted as its text after the
\* supplied rules were applied to it in order, each as a regular-expression
\* substitution; the text is therefore the same in the three targets.
C25_SubstitutionIsRegexInEveryTarget ==
    \A e \in 1..Len(emit_log) :
        (emit_log[e].used > 0 /\ ~NotSubstituted(tokens[emit_log[e].first].kind))
            => emit_log[e].added =
                   SubstituteRegex(substitutions,
                                   tokens[emit_log[e].first].value)

\* The passes of the loop that consumed the k-th token.
PassesOver(k) ==
    {e \in 1..Len(emit_log) :
        emit_log[e].first <= k /\ k < emit_log[e].first + emit_log[e].used}

\* C29: on every token sequence the lexer produces, each emitter stops by
\* returning its text, never by raising, having consumed every token
\* exactly once.
C29_EmissionIsTotal ==
    /\ ps_pc # "raised"
    /\ ps_pc = "returned" =>
           \A k \in 1..Len(tokens) : Cardinality(PassesOver(k)) = 1

OutDot == <<"o", "u", "t", ".">>

\* The token is a field access on the output record: "out", a dot and a
\* field name.
IsOutputField(tok) ==
    /\ tok.kind = "ID"
    /\ StartsWith(tok.value, OutDot)
    /\ Len(tok.value) > Len(OutDot)

\* C30: in the C++ emitted for the custom path, exactly the field accesses
\* on the output record are rewritten (out.field becomes pOut->field),
\* exactly the "next" keyword token is replaced by the end-of-record code,
\* and every other substituted token is emitted unchanged.
C30_CustomRulesRewriteOnlyTheirTokens ==
    (ps_target = "cpp" /\ substitutions = CustomSubstitutions(0)) =>
        \A e \in 1..Len(emit_log) :
            LET tok == tokens[emit_log[e].first]
                added == emit_log[e].added
            IN  ~NotSubstituted(tok.kind) =>
                    IF tok.kind = "NEXT" THEN added = LoopEndLines(0)
                    ELSE IF IsOutputField(tok)
                    THEN added = <<"p", "O", "u", "t", "-", ">">>
                                     \o SubSeq(tok.value, Len(OutDot) + 1,
                                               Len(tok.value))
                    ELSE added = tok.value

vars ==
    <<parseVars, genVars, decVars, custVars, attrVars, nameVars, typeVars,
      pseudoVars>>

InitParse ==
    ParseInit /\ GenIdle /\ DecodeIdle /\ CustomIdle
    /\ AttrIdle /\ NameIdle /\ TypeIdle
    /\ PseudoIdle

SpecParse == InitParse /\ [][ParseNext]_vars

InitGen ==
    GenInit /\ ParseIdle /\ DecodeIdle /\ CustomIdle
    /\ AttrIdle /\ NameIdle /\ TypeIdle
    /\ PseudoIdle

SpecGen == InitGen /\ [][GenNext]_vars

InitLayout ==
    LayoutInit /\ ParseIdle /\ DecodeIdle /\ CustomIdle
    /\ AttrIdle /\ NameIdle /\ TypeIdle
    /\ PseudoIdle

SpecLayout == InitLayout /\ [][GenNext]_vars

InitDecode ==
    DecodeInit /\ CustomIdle /\ ParseIdle /\ GenIdle
    /\ AttrIdle /\ NameIdle /\ TypeIdle
    /\ PseudoIdle

SpecDecode == InitDecode /\ [][DecodeNext]_vars

InitTime ==
    TimeInit /\ CustomIdle /\ ParseIdle /\ GenIdle
    /\ AttrIdle /\ NameIdle /\ TypeIdle
    /\ PseudoIdle

SpecTime == InitTime /\ [][DecodeNext]_vars

InitShortRecord ==
    ShortRecordInit /\ CustomIdle /\ ParseIdle /\ GenIdle
    /\ AttrIdle /\ NameIdle /\ TypeIdle
    /\ PseudoIdle

SpecShortRecord == InitShortRecord /\ [][DecodeNext]_vars

InitCustom ==
    CustomInit /\ ParseIdle /\ GenIdle /\ AttrIdle
    /\ NameIdle /\ TypeIdle
    /\ PseudoIdle

SpecCustom == InitCustom /\ [][CustomNext]_vars

InitCustomWrap ==
    CustomWrapInit /\ ParseIdle /\ GenIdle /\ AttrIdle
    /\ NameIdle /\ TypeIdle
    /\ PseudoIdle

SpecCustomWrap == InitCustomWrap /\ [][CustomNext]_vars

InitAttr ==
    AttrInit /\ ParseIdle /\ GenIdle /\ DecodeIdle
    /\ CustomIdle /\ NameIdle /\ TypeIdle
    /\ PseudoIdle

SpecAttr == InitAttr /\ [][AttrNext]_vars

InitName ==
    NameInit /\ ParseIdle /\ GenIdle /\ DecodeIdle /\ CustomIdle /\ AttrIdle
    /\ TypeIdle
    /\ PseudoIdle

SpecName == InitName /\ [][NameNext]_vars

InitType ==
    TypeInit /\ ParseIdle /\ GenIdle /\ DecodeIdle /\ CustomIdle /\ AttrIdle
    /\ NameIdle
    /\ PseudoIdle

SpecType == InitType /\ [][TypeNext]_vars

InitLex ==
    LexInit /\ ParseIdle /\ GenIdle /\ DecodeIdle /\ CustomIdle /\ AttrIdle
    /\ NameIdle /\ TypeIdle

SpecLex == InitLex /\ [][LexNext]_vars

InitEmit ==
    EmitInit /\ ParseIdle /\ GenIdle /\ DecodeIdle /\ CustomIdle /\ AttrIdle
    /\ NameIdle /\ TypeIdle

SpecEmit == InitEmit /\ [][EmitNext]_vars

InitSubst ==
    SubstInit /\ ParseIdle /\ GenIdle /\ DecodeIdle /\ CustomIdle
    /\ AttrIdle /\ NameIdle /\ TypeIdle

SpecSubst == InitSubst /\ [][EmitNext]_vars

=============================================================================
